---- MODULE Spec2Model ----
(***************************************************************************)
(* A model of the tulip concurrency engine: Futures and their callbacks,   *)
(* the Task/coroutine driver with wait and wait_for, the selector-based    *)
(* socket, TLS and datagram transports, and the StreamReader.              *)
(*                                                                         *)
(* The single-threaded loop is modelled by dispatching one ready handle    *)
(* at a time; calls made by user code (set_result, cancel, write, close,   *)
(* ...) are atomic actions interleaved with the dispatch.  Handlers are    *)
(* written as functions from a world record to a world record, so that a   *)
(* handler that calls other state-changing methods is one action.          *)
(***************************************************************************)
EXTENDS Integers, Sequences, FiniteSets, TLC

VARIABLES
    futs,        \* Future/Task id -> the Future's fields
    tasks,       \* Task id -> the Task's extra fields and its coroutine
    ready,       \* the loop's ready queue: a FIFO of handles
    timers,      \* the loop's timer heap: a set of timer handles
    hcancelled,  \* ids of the handles whose _cancelled flag is set
    ran,         \* log of the user callbacks dispatched: <<callback, future>>
    last,        \* the last API call made by user code and its outcome
    sr,          \* the StreamReader's fields
    wfut,        \* the Future the StreamReader last created as its waiter
    rd,          \* the task reading from the StreamReader: its coroutine
    fed,         \* the feed calls made so far, and what the last one raised
    tr,          \* the transport, its selector registrations and its loop
    loop,        \* the event loop core: ready queue, timer heap, clock
    ps,          \* two StreamBuffers with a parser, fed the same bytes
    sy           \* a lock, condition, semaphore or queue and its tasks

futVars == <<futs, tasks, ready, timers, hcancelled, ran, last>>

srVars == <<sr, wfut, rd, fed>>

\* What an action of one component leaves alone: the other components.
notFutVars == <<srVars, tr, loop, ps, sy>>
notSRVars == <<futVars, tr, loop, ps, sy>>
notTrVars == <<futVars, srVars, loop, ps, sy>>
notLoopVars == <<futVars, srVars, tr, ps, sy>>
notPsVars == <<futVars, srVars, tr, loop, sy>>
notSyVars == <<futVars, srVars, tr, loop, ps>>

vars ==
    <<futs, tasks, ready, timers, hcancelled, ran, last, sr, wfut, rd, fed, tr,
      loop, ps, sy>>

(***************************************************************************)
(* Bounds of the model.                                                    *)
(***************************************************************************)
MaxCalls == 4
MaxFeeds == 2     \* feed_data calls
MaxReads == 2     \* read operations started
MaxN == 2         \* largest n passed to read and readexactly
SRLimit == 2      \* the StreamReader's line length limit
MaxWrites == 2    \* write and sendto calls
MaxPauses == 1    \* pause_writing calls
MaxAborts == 1    \* abort calls
MaxStalls == 2    \* socket calls that block or send only a part
MaxRecvs == 1     \* recv calls that return data
MaxHandles == 3   \* handles created on the event loop core
MaxTime == 1      \* ticks of the loop's clock
MaxIterations == 3  \* iterations of the event loop core
MaxSelIterations == 2  \* iterations of the selector loop
MaxRegistrations == 5  \* add_reader and add_writer calls for the file descriptor
MaxBytes == 4     \* bytes fed to a parser
ParserLimit == 2  \* the least limit given to a parser's readuntil
ChunkSize == 2    \* the size given to chunks_parser
MaxEmpty == 1     \* empty chunks fed to a parser
MaxBufOps == 3    \* primitives started on a ParserBuffer
MaxDataItems == 3 \* items fed to a DataBuffer
MaxPipeData == 1  \* data_received calls of a subprocess pipe
NumSyTasks == 3   \* tasks sharing a lock, a condition, a semaphore or a queue
NumCondTasks == 2 \* tasks sharing a condition
MaxNotify == 2    \* largest n of Condition.notify(n)
SemValue == 2     \* initial value of the semaphore
QueueMaxsize == 1 \* maxsize of the bounded queue
MaxItems == 3     \* items put into a queue

(***************************************************************************)
(* Values.                                                                 *)
(***************************************************************************)
None == "None"
PENDING == "PENDING"
CANCELLED == "CANCELLED"
FINISHED == "FINISHED"
CancelledError == "CancelledError"
InvalidStateError == "InvalidStateError"
TimeoutError == "TimeoutError"
AssertionError == "AssertionError"
RuntimeError == "RuntimeError"
ValueError == "ValueError"

\* The outcome of a call: the world after it, and what it returned or raised.
Ret(w, ret, exc) == [w |-> w, ret |-> ret, exc |-> exc]

\* A bound method used as a callback.
Callback(fn, self) == [fn |-> fn, self |-> self]

(***************************************************************************)
(* The loop's scheduling interface.                                        *)
(***************************************************************************)
Handle(cb, arg, h) == [cb |-> cb, arg |-> arg, h |-> h]

call_soon(w, cb, arg) == [w EXCEPT !.ready = Append(@, Handle(cb, arg, "-"))]

call_later(w, h, cb, arg) ==
    [w EXCEPT !.timers = @ \cup {Handle(cb, arg, h)},
              !.hcancelled = @ \ {h}]

Handle_cancel(w, h) == [w EXCEPT !.hcancelled = @ \cup {h}]

(***************************************************************************)
(* Future.                                                                 *)
(***************************************************************************)
NewFuture(timeout_handle) ==
    [state |-> PENDING, result |-> None, exception |-> None,
     callbacks |-> <<>>, blocking |-> FALSE,
     timeout_handle |-> timeout_handle]

done(w, f) == w.futs[f].state # PENDING

cancelled(w, f) == w.futs[f].state = CANCELLED

\* A _schedule_callbacks that takes the callbacks from the end of the list.
_schedule_callbacks_Reversed(w, f) ==
    LET callbacks == w.futs[f].callbacks
        n == Len(callbacks)
    IN  [w EXCEPT !.futs[f].callbacks = <<>>,
                  !.ready = @ \o [i \in 1..n |->
                                    Handle(callbacks[n + 1 - i], f, "-")]]

_schedule_callbacks(w, f) ==
    LET th == w.futs[f].timeout_handle
        w1 == IF th # None
              THEN [Handle_cancel(w, th) EXCEPT !.futs[f].timeout_handle = None]
              ELSE w
        callbacks == w1.futs[f].callbacks
    IN  IF callbacks = <<>>
        THEN w1
        ELSE [w1 EXCEPT !.futs[f].callbacks = <<>>,
                        !.ready = @ \o [i \in 1..Len(callbacks) |->
                                          Handle(callbacks[i], f, "-")]]

Future_cancel(w, f) ==
    IF w.futs[f].state # PENDING
    THEN Ret(w, FALSE, None)
    ELSE Ret(_schedule_callbacks([w EXCEPT !.futs[f].state = CANCELLED], f),
             TRUE, None)

Future_result(w, f) ==
    IF w.futs[f].state = CANCELLED THEN Ret(w, None, CancelledError)
    ELSE IF w.futs[f].state # FINISHED THEN Ret(w, None, InvalidStateError)
    ELSE IF w.futs[f].exception # None THEN Ret(w, None, w.futs[f].exception)
    ELSE Ret(w, w.futs[f].result, None)

Future_exception(w, f) ==
    IF w.futs[f].state = CANCELLED THEN Ret(w, None, CancelledError)
    ELSE IF w.futs[f].state # FINISHED THEN Ret(w, None, InvalidStateError)
    ELSE Ret(w, w.futs[f].exception, None)

add_done_callback_Inline(w, f, fn) ==
    IF w.futs[f].state # PENDING
    THEN [w EXCEPT !.ran = Append(@, <<fn.self, f>>)]
    ELSE [w EXCEPT !.futs[f].callbacks = Append(@, fn)]

add_done_callback(w, f, fn) ==
    IF w.futs[f].state # PENDING
    THEN call_soon(w, fn, f)
    ELSE [w EXCEPT !.futs[f].callbacks = Append(@, fn)]

remove_done_callback(w, f, fn) ==
    LET filtered_callbacks == SelectSeq(w.futs[f].callbacks, LAMBDA c : c # fn)
        removed_count == Len(w.futs[f].callbacks) - Len(filtered_callbacks)
    IN  Ret(IF removed_count > 0
            THEN [w EXCEPT !.futs[f].callbacks = filtered_callbacks]
            ELSE w,
            removed_count, None)

set_result_NoGuard(w, f, result) ==
    Ret(_schedule_callbacks(
            [w EXCEPT !.futs[f].result = result, !.futs[f].state = FINISHED], f),
        None, None)

set_result(w, f, result) ==
    IF w.futs[f].state # PENDING
    THEN Ret(w, None, InvalidStateError)
    ELSE Ret(_schedule_callbacks(
                 [w EXCEPT !.futs[f].result = result,
                           !.futs[f].state = FINISHED], f),
             None, None)

\* The traceback logger only logs: of it, the model keeps the handle that
\* set_exception enqueues for its activate().
set_exception(w, f, exception) ==
    IF w.futs[f].state # PENDING
    THEN Ret(w, None, InvalidStateError)
    ELSE Ret(call_soon(
                 _schedule_callbacks(
                     [w EXCEPT !.futs[f].exception = exception,
                               !.futs[f].state = FINISHED], f),
                 Callback("_tb_logger.activate", f), None),
             None, None)

(***************************************************************************)
(* Coroutines.  A coroutine is a short program; the instructions are the   *)
(* statements a coroutine of the test suite is made of.  Each Task keeps   *)
(* the program, the index of the instruction it is at, and where it is     *)
(* suspended (at).                                                         *)
(***************************************************************************)
FIRST_COMPLETED == "FIRST_COMPLETED"
FIRST_EXCEPTION == "FIRST_EXCEPTION"
ALL_COMPLETED == "ALL_COMPLETED"

Instr(op) ==
    [op |-> op, f |-> None, fs |-> <<>>, catch |-> FALSE, timeout |-> FALSE,
     return_when |-> None]

\* x = yield from f
Await(f) == [Instr("await") EXCEPT !.f = f]

\* try: x = yield from f; except CancelledError: pass
AwaitCatch(f) == [Instr("await") EXCEPT !.f = f, !.catch = TRUE]

\* yield
Yield == Instr("yield")

\* yield f        (the Future itself, without "from")
YieldFuture(f) == [Instr("yield_future") EXCEPT !.f = f]

\* task.cancel(), called by the task's own coroutine
CancelSelf == Instr("cancel_self")

\* done, pending = yield from wait(fs, timeout=..., return_when=...)
Wait(fs, timeout, return_when) ==
    [Instr("wait") EXCEPT !.fs = fs, !.timeout = timeout,
                          !.return_when = return_when]

\* x = yield from wait_for(f, timeout)
WaitFor(f, timeout) == [Instr("wait_for") EXCEPT !.f = f, !.timeout = timeout]

\* values = []
\* for f in as_completed(fs): values.append((yield from f))
AsCompleted(fs) == [Instr("as_completed") EXCEPT !.fs = fs]

\* The Future that _wait creates for the task t, and its timeout handle.
WaiterOf(t) == IF t = "T1" THEN "W1" ELSE "W2"
TimeoutOf(t) == IF t = "T1" THEN "timeout_W1" ELSE "timeout_W2"

NewTask(prog) ==
    [prog |-> prog, pc |-> 1, at |-> "start", acc |-> None,
     fut_waiter |-> None, must_cancel |-> FALSE,
     \* the closure of the _wait the coroutine is in
     counter |-> 0, return_when |-> None, timeout_handle |-> None,
     fs |-> <<>>, wdone |-> {}, wpending |-> {},
     \* the closure of the as_completed the coroutine is in, the number of
     \* awaitables its iterator has still to yield, and the values awaited
     todo |-> {}, completed |-> <<>>, left |-> 0, values |-> <<>>,
     \* the order in which a set of the Futures iterates (by their hashes)
     order |-> <<>>,
     \* history: the Futures as_completed found done, each with the set it
     \* was found in
     found |-> <<>>,
     \* history: where the coroutine was when cancel() last returned True,
     \* and whether _step has been called since
     cancel_at |-> None, stepped |-> FALSE,
     \* history: how the coroutine ended (it returned val or raised val)
     ended |-> [kind |-> None, val |-> None]]

\* What resuming a coroutine comes to: it yields val, returns val or raises val.
Out(w, kind, val) == [w |-> w, kind |-> kind, val |-> val]

RECURSIVE Task_cancel(_, _)
cancel(w, x) ==
    IF x \in DOMAIN w.tasks THEN Task_cancel(w, x) ELSE Future_cancel(w, x)

\* A cancel() that schedules a _step of its own when it sets must_cancel.
Task_cancel_StepsAgain(w, t) ==
    IF done(w, t)
    THEN Ret(w, FALSE, None)
    ELSE LET w0 == [w EXCEPT !.tasks[t].cancel_at = w.tasks[t].at,
                             !.tasks[t].stepped = FALSE]
             waiter == w0.tasks[t].fut_waiter
             r == cancel([w0 EXCEPT !.tasks[t].fut_waiter = None], waiter)
         IN  IF waiter # None /\ r.ret
             THEN Ret(r.w, TRUE, None)
             ELSE Ret(call_soon([(IF waiter # None THEN r.w ELSE w0)
                                    EXCEPT !.tasks[t].must_cancel = TRUE],
                                Callback("_step", t), None),
                      TRUE, None)

\* A cancel() that is Future.cancel: the Task is marked cancelled at once.
Task_cancel_AsFuture(w, t) == Future_cancel(w, t)

Task_cancel(w, t) ==
    IF done(w, t)
    THEN Ret(w, FALSE, None)
    ELSE LET w0 == [w EXCEPT !.tasks[t].cancel_at = w.tasks[t].at,
                             !.tasks[t].stepped = FALSE]
             waiter == w0.tasks[t].fut_waiter
             r == cancel([w0 EXCEPT !.tasks[t].fut_waiter = None], waiter)
         IN  IF waiter # None /\ r.ret
             THEN Ret(r.w, TRUE, None)
             ELSE Ret([(IF waiter # None THEN r.w ELSE w0)
                          EXCEPT !.tasks[t].must_cancel = TRUE], TRUE, None)

RECURSIVE add_callbacks(_, _, _)
add_callbacks(w, fs, fn) ==
    IF fs = <<>> THEN w
    ELSE add_callbacks(add_done_callback(w, Head(fs), fn), Tail(fs), fn)

RECURSIVE remove_callbacks(_, _, _)
remove_callbacks(w, fs, fn) ==
    IF fs = <<>> THEN w
    ELSE remove_callbacks(remove_done_callback(w, Head(fs), fn).w, Tail(fs), fn)

Range(s) == {s[i] : i \in 1..Len(s)}

\* _wait up to its "yield from waiter": the waiter has just been created, so
\* Future.__iter__ marks it blocking and yields it.
_wait_start(w, t, fs, timeout, return_when) ==
    IF fs = <<>>
    THEN Out(w, "raise", AssertionError)
    ELSE LET waiter == WaiterOf(t)
             w1 == [w EXCEPT !.futs[waiter] = NewFuture(None)]
             w2 == IF timeout
                   THEN call_later(w1, TimeoutOf(t), Callback("cancel", waiter), None)
                   ELSE w1
             w3 == [w2 EXCEPT !.tasks[t].timeout_handle =
                                  IF timeout THEN TimeoutOf(t) ELSE None,
                              !.tasks[t].fs = fs,
                              !.tasks[t].counter = Cardinality(Range(fs)),
                              !.tasks[t].return_when = return_when]
             w4 == add_callbacks(w3, fs, Callback("_on_completion", t))
         IN  Out([w4 EXCEPT !.futs[waiter].blocking = TRUE,
                            !.tasks[t].at = "wait"],
                 "yield", waiter)

_on_completion(w, t, f) ==
    LET k == w.tasks[t]
        w1 == [w EXCEPT !.tasks[t].counter = @ - 1]
        w2 == IF k.timeout_handle # None
              THEN Handle_cancel(w1, k.timeout_handle)
              ELSE w1
    IN  IF f \notin Range(k.fs)
        \* the closure of an earlier _wait of the task: its waiter is done
        THEN w
        ELSE IF \/ k.counter - 1 <= 0
           \/ k.return_when = FIRST_COMPLETED
           \/ /\ k.return_when = FIRST_EXCEPTION
              /\ ~cancelled(w, f)
              /\ Future_exception(w, f).ret # None
        THEN Future_cancel(w2, WaiterOf(t)).w
        ELSE w1

\* The coroutine of task t goes on to its next instruction.
Advance(w, t) == [w EXCEPT !.tasks[t].pc = @ + 1, !.tasks[t].at = "running"]

RECURSIVE Exec(_, _)
\* An exception is raised at the instruction the coroutine is at.
Throw(w, t, exc) ==
    LET ins == w.tasks[t].prog[w.tasks[t].pc]
    IN  IF ins.op = "await" /\ ins.catch /\ exc = CancelledError
        THEN Exec(Advance(w, t), t)
        ELSE Out([w EXCEPT !.tasks[t].at = "finished",
                           !.tasks[t].ended = [kind |-> "raise", val |-> exc]],
                 "raise", exc)

\* Future.__iter__ after its yield: the Future must be done, and its result
\* is the value of the "yield from".
Future_iter_result(w, t, f) ==
    IF ~done(w, f)
    THEN Throw(w, t, AssertionError)
    ELSE LET r == Future_result(w, f)
         IN  IF r.exc # None
             THEN Throw(w, t, r.exc)
             ELSE Exec(Advance([w EXCEPT !.tasks[t].acc = r.ret], t), t)

\* Iteration over a set of Futures.
SetIter(w, t, s) == SelectSeq(w.tasks[t].order, LAMBDA f : f \in s)

\* A loop over done that appends every f without removing it from todo.
dedupe_KeepTodo(w, t) ==
    LET k == w.tasks[t]
        new == SetIter(w, t, k.wdone)
    IN  [w EXCEPT !.tasks[t].completed = @ \o new,
                  !.tasks[t].found =
                      @ \o [i \in 1..Len(new) |-> [f |-> new[i], with |-> k.wdone]]]

\* _wait_for_one after its _wait has returned done:
\*     for f in done: if f in todo: todo.remove(f); completed.append(f)
dedupe(w, t) ==
    LET k == w.tasks[t]
        new == SetIter(w, t, k.wdone \cap k.todo)
    IN  [w EXCEPT !.tasks[t].todo = @ \ k.wdone,
                  !.tasks[t].completed = @ \o new,
                  !.tasks[t].found =
                      @ \o [i \in 1..Len(new) |-> [f |-> new[i], with |-> k.wdone]]]

\* The loop of as_completed's iterator and of its caller: the next
\* _wait_for_one() is awaited from its "while not completed".
_wait_for_one(w, t) ==
    LET k == w.tasks[t]
        r == Future_result(w, Head(k.completed))
        w1 == [w EXCEPT !.tasks[t].completed = Tail(@)]
    IN  IF k.left > 0 /\ k.completed = <<>>
        THEN _wait_start(w, t, SetIter(w, t, k.todo), FALSE, FIRST_COMPLETED)
        ELSE IF k.left > 0 /\ r.exc # None
        THEN Throw(w1, t, r.exc)
        ELSE Exec(IF k.left = 0
                  THEN Advance(w, t)
                  ELSE [w1 EXCEPT !.tasks[t].values = Append(@, r.ret),
                                  !.tasks[t].left = @ - 1], t)

as_completed(w, t, fs) ==
    [w EXCEPT !.tasks[t].todo = Range(fs),
              !.tasks[t].completed = <<>>,
              !.tasks[t].left = Cardinality(Range(fs)),
              !.tasks[t].at = "as_completed"]

\* What the caller of _wait does with the two sets it returns.
_wait_caller(w, t) ==
    LET ins == w.tasks[t].prog[w.tasks[t].pc]
        r == Future_result(w, ins.f)
    IN  IF ins.op = "wait_for" /\ (w.tasks[t].wdone = {} \/ r.exc # None)
        THEN Throw(w, t, IF w.tasks[t].wdone = {} THEN TimeoutError ELSE r.exc)
        ELSE Exec(CASE ins.op = "wait" -> Advance(w, t)
                    [] ins.op = "as_completed" ->
                         [dedupe(w, t) EXCEPT !.tasks[t].at = "as_completed"]
                    [] OTHER -> Advance([w EXCEPT !.tasks[t].acc = r.ret], t),
                  t)

RECURSIVE cancel_all(_, _)
cancel_all(w, fs) ==
    IF fs = <<>> THEN w
    ELSE cancel_all(IF done(w, Head(fs)) THEN w ELSE cancel(w, Head(fs)).w,
                    Tail(fs))

\* A _wait that cancels the futures still pending when it returns.
_wait_finish_CancelPending(w, t) ==
    LET fs == w.tasks[t].fs
        w1 == remove_callbacks(w, fs, Callback("_on_completion", t))
        done_set == {f \in Range(fs) : done(w1, f)}
        pending_set == Range(fs) \ done_set
        w2 == cancel_all([w1 EXCEPT !.tasks[t].wdone = done_set,
                                    !.tasks[t].wpending = pending_set], fs)
    IN  _wait_caller(w2, t)

\* _wait after its "yield from waiter", then what wait and wait_for do with
\* the two sets.
_wait_finish(w, t) ==
    LET fs == w.tasks[t].fs
        w1 == remove_callbacks(w, fs, Callback("_on_completion", t))
        done_set == {f \in Range(fs) : done(w1, f)}
        pending_set == Range(fs) \ done_set
        w2 == [w1 EXCEPT !.tasks[t].wdone = done_set,
                         !.tasks[t].wpending = pending_set]
    IN  _wait_caller(w2, t)

\* The coroutine runs from its current instruction to its next yield, to its
\* return or to an exception that leaves it.
Exec(w, t) ==
    LET k == w.tasks[t]
    IN  IF k.pc > Len(k.prog)
        THEN Out([w EXCEPT !.tasks[t].at = "finished",
                           !.tasks[t].ended = [kind |-> "return", val |-> k.acc]],
                 "return", k.acc)
        ELSE LET ins == k.prog[k.pc]
             IN  CASE ins.op = "await" ->
                        IF ~done(w, ins.f)
                        THEN Out([w EXCEPT !.futs[ins.f].blocking = TRUE,
                                           !.tasks[t].at = "await"],
                                 "yield", ins.f)
                        ELSE Future_iter_result(w, t, ins.f)
                   [] ins.op = "yield" ->
                        Out([w EXCEPT !.tasks[t].at = "yield"], "yield", None)
                   [] ins.op = "yield_future" ->
                        Out([w EXCEPT !.tasks[t].at = "yield"], "yield", ins.f)
                   [] ins.op = "cancel_self" ->
                        Exec(Advance(Task_cancel(w, t).w, t), t)
                   [] ins.op = "wait" ->
                        IF ins.fs = <<>>
                        THEN Throw(w, t, ValueError)
                        ELSE IF ins.return_when \notin
                                {FIRST_COMPLETED, FIRST_EXCEPTION, ALL_COMPLETED}
                        THEN Throw(w, t, ValueError)
                        ELSE _wait_start(w, t, ins.fs, ins.timeout,
                                         ins.return_when)
                   [] ins.op = "wait_for" ->
                        _wait_start(w, t, <<ins.f>>, ins.timeout,
                                    FIRST_COMPLETED)
                   [] ins.op = "as_completed" ->
                        _wait_for_one(IF k.at = "as_completed"
                                      THEN w
                                      ELSE as_completed(w, t, ins.fs), t)

\* coro.throw(exc) when exc is not None, else coro.send(value) or next(coro):
\* the coroutine resumes where it is suspended.
Resume(w, t, exc) ==
    LET k == w.tasks[t]
        w1 == [w EXCEPT !.tasks[t].at = "running"]
    IN  CASE k.at = "start" ->
               IF exc # None
               THEN Out([w EXCEPT !.tasks[t].at = "finished",
                                  !.tasks[t].ended =
                                      [kind |-> "raise", val |-> exc]],
                        "raise", exc)
               ELSE Exec(w1, t)
          [] k.at = "await" ->
               IF exc # None
               THEN Throw(w1, t, exc)
               ELSE Future_iter_result(w1, t, k.prog[k.pc].f)
          [] k.at = "yield" ->
               IF exc # None
               THEN Throw(w1, t, exc)
               ELSE Exec(Advance(w1, t), t)
          [] k.at = "wait" ->
               LET waiter == WaiterOf(t)
                   r == Future_result(w1, waiter)
               IN  IF exc = CancelledError
                   THEN _wait_finish(w1, t)
                   ELSE IF exc # None
                   THEN Throw(w1, t, exc)
                   ELSE IF ~done(w1, waiter)
                   THEN Throw(w1, t, AssertionError)
                   ELSE IF r.exc \notin {None, CancelledError}
                   THEN Throw(w1, t, r.exc)
                   ELSE _wait_finish(w1, t)
          [] OTHER -> Out(w, "raise", "StopIteration")

_step(w, t, exc) ==
    IF done(w, t)
    THEN w
    ELSE LET k == w.tasks[t]
             w0 == [w EXCEPT !.tasks[t].stepped = TRUE]
         IN  IF k.must_cancel /\ k.fut_waiter # None
             THEN w0
             ELSE LET o == Resume([w0 EXCEPT !.tasks[t].fut_waiter = None], t,
                                  IF k.must_cancel THEN CancelledError ELSE exc)
                      result == o.val
                  IN  CASE o.kind = "return" -> set_result(o.w, t, o.val).w
                        [] o.kind = "raise" /\ o.val = CancelledError ->
                             Future_cancel(o.w, t).w
                        [] o.kind = "raise" -> set_exception(o.w, t, o.val).w
                        [] o.kind = "yield" /\ result = None ->
                             call_soon(o.w, Callback("_step", t), None)
                        [] o.kind = "yield" /\ o.w.futs[result].blocking ->
                             [add_done_callback(
                                  [o.w EXCEPT !.futs[result].blocking = FALSE],
                                  result, Callback("_wakeup", t))
                               EXCEPT !.tasks[t].fut_waiter = result]
                        [] OTHER ->
                             call_soon(o.w, Callback("_step", t), RuntimeError)

_wakeup(w, t, future) ==
    LET r == Future_result(w, future)
    IN  _step(w, t, r.exc)

(***************************************************************************)
(* Dispatch of one handle, as Handle._run does: a cancelled handle is      *)
(* skipped, an exception raised by the callback is logged and dropped.     *)
(***************************************************************************)
RunCallback(w, hd) ==
    CASE hd.cb.fn = "user" -> [w EXCEPT !.ran = Append(@, <<hd.cb.self, hd.arg>>)]
      [] hd.cb.fn = "cancel" -> cancel(w, hd.cb.self).w
      [] hd.cb.fn = "_step" -> _step(w, hd.cb.self, hd.arg)
      [] hd.cb.fn = "_wakeup" -> _wakeup(w, hd.cb.self, hd.arg)
      [] hd.cb.fn = "_on_completion" -> _on_completion(w, hd.cb.self, hd.arg)
      [] OTHER -> w

_run_once(w) ==
    LET hd == Head(w.ready)
        w1 == [w EXCEPT !.ready = Tail(@)]
    IN  IF hd.h \in w1.hcancelled THEN w1 ELSE RunCallback(w1, hd)

(***************************************************************************)
(* The world record and its commit to the variables.                       *)
(***************************************************************************)
World ==
    [futs |-> futs, tasks |-> tasks, ready |-> ready, timers |-> timers,
     hcancelled |-> hcancelled, ran |-> ran]

Commit(w) ==
    /\ futs' = w.futs
    /\ tasks' = w.tasks
    /\ ready' = w.ready
    /\ timers' = w.timers
    /\ hcancelled' = w.hcancelled
    /\ ran' = w.ran
    /\ UNCHANGED notFutVars

Call(op, f, arg, r) ==
    /\ last.n < MaxCalls
    /\ last' = [n |-> last.n + 1, op |-> op, f |-> f, arg |-> arg,
                ret |-> r.ret, exc |-> r.exc]
    /\ Commit(r.w)

(***************************************************************************)
(* Specification of plain Futures: user code calls the Future API on two   *)
(* Futures (the second one constructed with a timeout) and the loop        *)
(* dispatches the handles.                                                 *)
(***************************************************************************)
FutIds == {"F1", "F2"}
UserCallbacks == {Callback("user", "cb1"), Callback("user", "cb2")}
Results == {"a", "b"}
Exceptions == {"Err"}
NoCall == [n |-> 0, op |-> None, f |-> None, arg |-> None, ret |-> None, exc |-> None]

FutInit ==
    /\ futs = [f \in FutIds |->
                 NewFuture(IF f = "F2" THEN "timeout_F2" ELSE None)]
    /\ tasks = <<>>
    /\ ready = <<>>
    /\ timers = {Handle(Callback("cancel", "F2"), None, "timeout_F2")}
    /\ hcancelled = {}
    /\ ran = <<>>
    /\ last = NoCall

FutCancel ==
    \E f \in FutIds : Call("cancel", f, None, Future_cancel(World, f))

FutSetResult ==
    \E f \in FutIds, v \in Results :
        Call("set_result", f, v, set_result(World, f, v))

FutSetException ==
    \E f \in FutIds, e \in Exceptions :
        Call("set_exception", f, e, set_exception(World, f, e))

FutAddDoneCallback ==
    \E f \in FutIds, fn \in UserCallbacks :
        Call("add_done_callback", f, fn.self,
             Ret(add_done_callback(World, f, fn), None, None))

FutRemoveDoneCallback ==
    \E f \in FutIds, fn \in UserCallbacks :
        Call("remove_done_callback", f, fn.self,
             remove_done_callback(World, f, fn))

\* A timer becomes due: the loop moves it from the heap to the ready queue.
TimerDue ==
    \E t \in timers :
        /\ timers' = timers \ {t}
        /\ ready' = IF t.h \in hcancelled THEN ready ELSE Append(ready, t)
        /\ UNCHANGED <<futs, tasks, hcancelled, ran, last>>
        /\ UNCHANGED notFutVars

RunOnce ==
    /\ ready # <<>>
    /\ Commit(_run_once(World))
    /\ UNCHANGED last

FutNext ==
    \/ FutCancel
    \/ FutSetResult
    \/ FutSetException
    \/ FutAddDoneCallback
    \/ FutRemoveDoneCallback
    \/ TimerDue
    \/ RunOnce


(***************************************************************************)
(* StreamReader.  Bytes are "x" and "n" (the newline); a chunk is a        *)
(* sequence of bytes.  One task reads: its coroutine is rd, suspended at   *)
(* rd.at on the waiter Future wfut, which sr.waiter references until a     *)
(* feed clears it.                                                         *)
(***************************************************************************)
NL == "n"
Bytes == {"x", NL}
\* The chunks fed: every chunk of one or two bytes.
Chunks == UNION {[1..k -> Bytes] : k \in {1, 2}}

RECURSIVE join(_)
join(chunks) ==
    IF chunks = <<>> THEN <<>> ELSE Head(chunks) \o join(Tail(chunks))

\* bytes.find(b'\n'): the index from 0 of the first newline, or -1.
RECURSIVE find(_)
find(data) ==
    IF data = <<>> THEN -1
    ELSE IF Head(data) = NL THEN 0
    ELSE LET i == find(Tail(data)) IN IF i < 0 THEN -1 ELSE i + 1

StreamReader(limit) ==
    [limit |-> limit, buffer |-> <<>>, byte_count |-> 0, eof |-> FALSE,
     waiter |-> None, exception |-> None]

NoFuture == [state |-> None, exception |-> None]

IdleReader ==
    [op |-> None, n |-> 0, status |-> "idle", at |-> None, parts |-> <<>>,
     not_enough |-> TRUE, must_cancel |-> FALSE, ret |-> <<>>, exc |-> None]

\* The state a read operation runs on.
SRState == [sr |-> sr, wfut |-> wfut, rd |-> rd]

\* The coroutine returns value, or raises exc.
SRReturn(x, value) ==
    [x EXCEPT !.rd.status = "done", !.rd.at = None, !.rd.ret = value,
              !.rd.exc = None]

SRRaise(x, exc) ==
    [x EXCEPT !.rd.status = "done", !.rd.at = None, !.rd.ret = <<>>,
              !.rd.exc = exc]

\* assert not self.waiter; self.waiter = futures.Future(); yield from it.
SRWait(x, at) ==
    IF x.sr.waiter # None
    THEN SRRaise(x, AssertionError)
    ELSE [x EXCEPT !.sr.waiter = "W",
                   !.wfut = [state |-> PENDING, exception |-> None],
                   !.rd.status = "suspended", !.rd.at = at]

\* readline's inner loop: take chunks until a newline or the limit.
RECURSIVE readline_inner(_)
readline_inner(x) ==
    IF x.sr.buffer = <<>> \/ ~x.rd.not_enough
    THEN x
    ELSE LET data == Head(x.sr.buffer)
             ichar == find(data)
             head == SubSeq(data, 1, ichar + 1)
             tail == SubSeq(data, ichar + 2, Len(data))
             x1 == IF ichar < 0
                   THEN [x EXCEPT !.sr.buffer = Tail(@),
                                  !.rd.parts = @ \o data]
                   ELSE [x EXCEPT !.sr.buffer = IF tail # <<>>
                                                THEN <<tail>> \o Tail(@)
                                                ELSE Tail(@),
                                  !.rd.not_enough = FALSE,
                                  !.rd.parts = @ \o head]
         IN  IF Len(x1.rd.parts) > x1.sr.limit
             THEN SRRaise([x1 EXCEPT !.sr.byte_count = @ - Len(x1.rd.parts)],
                          ValueError)
             ELSE readline_inner(x1)

\* readline from the top of its outer loop.
readline_loop(x) ==
    LET x1 == readline_inner(x)
        finish == SRReturn([x1 EXCEPT !.sr.byte_count = @ - Len(x1.rd.parts)],
                           x1.rd.parts)
    IN  IF x1.rd.status = "done" THEN x1
        ELSE IF ~x1.rd.not_enough THEN finish
        ELSE IF x1.sr.eof THEN finish
        ELSE SRWait(x1, "readline")

readline(x) ==
    IF x.sr.exception # None
    THEN SRRaise(x, x.sr.exception)
    ELSE readline_loop([x EXCEPT !.rd.parts = <<>>, !.rd.not_enough = TRUE])

\* read's last loop: take n bytes from the head of the buffer.
RECURSIVE read_parts(_, _, _)
read_parts(x, n, parts) ==
    IF x.sr.buffer = <<>> \/ ~(Len(parts) < n)
    THEN SRReturn(x, parts)
    ELSE LET data == Head(x.sr.buffer)
             data_bytes == IF n < Len(parts) + Len(data)
                           THEN n - Len(parts) ELSE Len(data)
             rest == SubSeq(data, data_bytes + 1, Len(data))
         IN  read_parts(
                 [x EXCEPT !.sr.buffer = IF n < Len(parts) + Len(data)
                                         THEN <<rest>> \o Tail(@)
                                         ELSE Tail(@),
                           !.sr.byte_count = @ - data_bytes],
                 n, parts \o SubSeq(data, 1, data_bytes))

\* read after its waits.
read_body(x) ==
    LET n == x.rd.n
    IN  IF n < 0 \/ x.sr.byte_count <= n
        THEN SRReturn([x EXCEPT !.sr.buffer = <<>>, !.sr.byte_count = 0],
                      join(x.sr.buffer))
        ELSE read_parts(x, n, <<>>)

\* read(-1) at the top of its loop.
read_eof_loop(x) ==
    IF ~x.sr.eof THEN SRWait(x, "read_eof") ELSE read_body(x)

read(x) ==
    IF x.sr.exception # None THEN SRRaise(x, x.sr.exception)
    ELSE IF x.rd.n = 0 THEN SRReturn(x, <<>>)
    ELSE IF x.rd.n < 0 THEN read_eof_loop(x)
    ELSE IF x.sr.byte_count = 0 /\ ~x.sr.eof THEN SRWait(x, "read")
    ELSE read_body(x)

readexactly_RaiseIncomplete(x) ==
    IF x.sr.byte_count < x.rd.n /\ ~x.sr.eof THEN SRWait(x, "readexactly")
    ELSE IF x.sr.byte_count < x.rd.n THEN SRRaise(x, "IncompleteRead")
    ELSE read(x)

\* readexactly at the top of its loop.
readexactly_loop(x) ==
    IF x.sr.byte_count < x.rd.n /\ ~x.sr.eof
    THEN SRWait(x, "readexactly")
    ELSE read(x)

readexactly(x) ==
    IF x.sr.exception # None THEN SRRaise(x, x.sr.exception)
    ELSE IF x.rd.n <= 0 THEN SRReturn(x, <<>>)
    ELSE readexactly_loop(x)

\* The task steps the suspended coroutine: Future.__iter__ re-raises the
\* waiter's exception, Task._step throws CancelledError when the waiter was
\* cancelled or the task was told to cancel.
SRStep(x) ==
    LET x1 == [x EXCEPT !.rd.status = "running", !.rd.must_cancel = FALSE]
    IN  IF x.rd.must_cancel \/ x.wfut.state = CANCELLED
        THEN SRRaise(x1, CancelledError)
        ELSE IF x.wfut.exception # None THEN SRRaise(x1, x.wfut.exception)
        ELSE CASE x.rd.at = "readline" -> readline_loop(x1)
               [] x.rd.at = "read_eof" -> read_eof_loop(x1)
               [] x.rd.at = "read" -> read_body(x1)
               [] x.rd.at = "readexactly" -> readexactly_loop(x1)

feed_eof(x) ==
    LET x1 == [x EXCEPT !.sr.eof = TRUE]
    IN  IF x1.sr.waiter = None THEN Ret(x1, None, None)
        ELSE IF x1.wfut.state # PENDING
        THEN Ret([x1 EXCEPT !.sr.waiter = None], None, InvalidStateError)
        ELSE Ret([x1 EXCEPT !.sr.waiter = None, !.wfut.state = FINISHED],
                 None, None)

feed_data(x, data) ==
    IF data = <<>> THEN Ret(x, None, None)
    ELSE LET x1 == [x EXCEPT !.sr.buffer = Append(@, data),
                             !.sr.byte_count = @ + Len(data)]
         IN  IF x1.sr.waiter = None THEN Ret(x1, None, None)
             ELSE IF x1.wfut.state # PENDING
             THEN Ret([x1 EXCEPT !.sr.waiter = None], None, InvalidStateError)
             ELSE Ret([x1 EXCEPT !.sr.waiter = None, !.wfut.state = FINISHED],
                      None, None)

StreamReader_set_exception(x, exc) ==
    LET x1 == [x EXCEPT !.sr.exception = exc]
    IN  IF x1.sr.waiter = None THEN Ret(x1, None, None)
        ELSE IF x1.wfut.state # PENDING THEN Ret(x1, None, InvalidStateError)
        ELSE Ret([x1 EXCEPT !.wfut.state = FINISHED, !.wfut.exception = exc],
                 None, None)

\* Task.cancel of the reading task: cancel the waiter it is suspended on,
\* or ask the step that is already scheduled to throw CancelledError.
SRTask_cancel(x) ==
    IF x.wfut.state = PENDING
    THEN [x EXCEPT !.wfut.state = CANCELLED]
    ELSE [x EXCEPT !.rd.must_cancel = TRUE]

SRCommit(x) ==
    /\ sr' = x.sr
    /\ wfut' = x.wfut
    /\ rd' = x.rd
    /\ UNCHANGED notSRVars

(***************************************************************************)
(* Selector transports.  One transport and its protocol: the record holds  *)
(* the transport's fields, the selector's two registrations for its fd,    *)
(* the loop's ready queue, and a log of what the protocol and the socket   *)
(* have seen.  A handler takes the record and the outcome of the socket    *)
(* calls it makes (env) and gives the record after it.                     *)
(***************************************************************************)
ConnectionResetError == "ConnectionResetError"
ConnectionRefusedError == "ConnectionRefusedError"
OSError == "OSError"

NewTransport(kind, address) ==
    [kind |-> kind, address |-> address,
     buffer |-> <<>>, conn_lost |-> 0, writing |-> TRUE, closing |-> FALSE,
     dead |-> FALSE,        \* _sock, _protocol and _loop are None
     reader |-> None, writer |-> None,
     ready |-> <<>>,
     waiter |-> None,       \* what the creator's waiter Future was given
     \* the protocol's and the socket's log
     made |-> FALSE, lost |-> <<>>, refused |-> 0, eofs |-> 0, keep |-> FALSE,
     mades |-> 0,           \* connection_made calls
     sock_closed |-> FALSE, \* sock.close() was called
     handshake |-> None,    \* how do_handshake ended: "done" or "failed"
     refusals |-> 0,        \* ConnectionRefusedErrors raised by the socket
     received |-> 0,        \* data_received and datagram_received calls
     sent |-> <<>>, written |-> 0,
     \* history of the calls made
     writes |-> 0, pauses |-> 0, aborts |-> 0, stalls |-> 0,
     close_cause |-> None]

NoTransport == NewTransport(None, FALSE)

\* A handle in the ready queue; io tells the reader's and the writer's handle
\* from the handles made by call_soon.
TrHandle(fn, arg, io) == [fn |-> fn, arg |-> arg, io |-> io, cancelled |-> FALSE]

tr_call_soon(w, fn, arg) == [w EXCEPT !.ready = Append(@, TrHandle(fn, arg, "-"))]

\* handle.cancel() of the handle registered for io: its entries in the ready
\* queue will be skipped.
cancel_handles(w, io) ==
    [w EXCEPT !.ready = [i \in DOMAIN @ |->
                           IF @[i].io = io
                           THEN [@[i] EXCEPT !.cancelled = TRUE]
                           ELSE @[i]]]

add_reader(w, fn) == [cancel_handles(w, "r") EXCEPT !.reader = fn]

remove_reader(w) == [cancel_handles(w, "r") EXCEPT !.reader = None]

add_writer(w, fn) == [cancel_handles(w, "w") EXCEPT !.writer = fn]

remove_writer(w) == [cancel_handles(w, "w") EXCEPT !.writer = None]

\* A _call_connection_lost that keeps the references to the protocol, the
\* socket and the loop.
_call_connection_lost_KeepRefs(w, exc) == [w EXCEPT !.lost = Append(@, exc)]

_call_connection_lost(w, exc) ==
    IF w.dead
    THEN w
    ELSE [w EXCEPT !.lost = Append(@, exc), !.dead = TRUE,
                   !.sock_closed = TRUE]

Base_force_close(w, exc) ==
    IF w.closing
    THEN w
    ELSE tr_call_soon(
             [remove_reader(remove_writer(w))
                 EXCEPT !.closing = TRUE, !.conn_lost = @ + 1,
                        !.buffer = <<>>, !.close_cause = exc],
             "_call_connection_lost", exc)

Datagram_force_close(w, exc) ==
    IF w.address /\ exc = ConnectionRefusedError
    THEN IF w.dead
         THEN w
         ELSE Base_force_close([w EXCEPT !.refused = @ + 1], exc)
    ELSE Base_force_close(w, exc)

\* self._force_close(exc): the datagram transport overrides it.
_force_close(w, exc) ==
    IF w.kind = "datagram" THEN Datagram_force_close(w, exc)
    ELSE Base_force_close(w, exc)

_fatal_error(w, exc) == _force_close(w, exc)

abort(w) == _force_close([w EXCEPT !.aborts = @ + 1], None)

\* close(): the TLS transport overrides it, and leaves the call of
\* connection_lost to _on_ready.
close(w) ==
    IF w.closing
    THEN w
    ELSE LET w1 == remove_reader([w EXCEPT !.closing = TRUE,
                                           !.conn_lost = @ + 1])
         IN  IF w1.buffer = <<>> /\ w1.kind # "ssl"
             THEN tr_call_soon(w1, "_call_connection_lost", None)
             ELSE w1

\* sock.send(data): what it returns or raises, and what went out.
SendOutcomes == {"full", "partial", "block", "error"}

sent_count(data, outcome) ==
    CASE outcome = "full" -> Len(data)
      [] outcome = "partial" -> IF Len(data) > 1 THEN 1 ELSE Len(data)
      [] OTHER -> 0

\* The socket call raises ConnectionRefusedError.
refuse(w) == [w EXCEPT !.refusals = @ + 1]

send(w, data, outcome) ==
    LET n == sent_count(data, outcome)
    IN  [w EXCEPT !.sent = @ \o SubSeq(data, 1, n),
                  !.stalls = @ + (IF n < Len(data) /\ outcome # "error"
                                  THEN 1 ELSE 0)]

(***************************************************************************)
(* _SelectorSocketTransport.                                               *)
(***************************************************************************)
RecvOutcomes == {"data", "eof", "block", "reset", "error"}

\* _read_ready with an empty recv, where the protocol's eof_received()
\* returns keep: a variant that leaves the transport open when keep is true.
eof_KeepOpen(w, keep) ==
    LET w1 == [w EXCEPT !.eofs = @ + 1, !.keep = keep]
    IN  IF keep THEN w1 ELSE close(w1)

eof(w, keep) == close([w EXCEPT !.eofs = @ + 1, !.keep = keep])

Socket_read_ready(w, env) ==
    IF w.dead THEN w
    ELSE CASE env.recv = "block" -> w
           [] env.recv = "reset" -> _force_close(w, ConnectionResetError)
           [] env.recv = "error" -> _fatal_error(w, OSError)
           [] env.recv = "data" -> [w EXCEPT !.received = @ + 1]
           [] env.recv = "eof" -> eof(w, env.keep)

\* A write that tries the socket whenever writing is on, even with earlier
\* data still buffered.
Socket_write_SendFirst(w, data, env) ==
    LET w0 == [w EXCEPT !.writes = @ + 1, !.written = @ + Len(data)]
    IN  IF data = <<>> THEN w
        ELSE IF w0.conn_lost # 0
        THEN [w0 EXCEPT !.conn_lost = @ + 1]
        ELSE IF w0.writing
        THEN IF env.send = "error"
             THEN _fatal_error(w0, OSError)
             ELSE LET n == sent_count(data, env.send)
                      w1 == send(w0, data, env.send)
                  IN  IF n = Len(data)
                      THEN w1
                      ELSE [add_writer(w1, "_write_ready")
                               EXCEPT !.buffer =
                                   Append(@, SubSeq(data, n + 1, Len(data)))]
        ELSE [w0 EXCEPT !.buffer = Append(@, data)]

Socket_write(w, data, env) ==
    LET w0 == [w EXCEPT !.writes = @ + 1, !.written = @ + Len(data)]
    IN  IF data = <<>> THEN w
        ELSE IF w0.conn_lost # 0
        THEN [w0 EXCEPT !.conn_lost = @ + 1]
        ELSE IF w0.buffer = <<>> /\ w0.writing
        THEN IF env.send = "error"
             THEN _fatal_error(w0, OSError)
             ELSE LET n == sent_count(data, env.send)
                      w1 == send(w0, data, env.send)
                  IN  IF n = Len(data)
                      THEN w1
                      ELSE [add_writer(w1, "_write_ready")
                               EXCEPT !.buffer =
                                   Append(@, SubSeq(data, n + 1, Len(data)))]
        ELSE [w0 EXCEPT !.buffer = Append(@, data)]

Socket_write_ready(w, env) ==
    IF ~w.writing THEN w
    ELSE LET data == join(w.buffer)
             w0 == [w EXCEPT !.buffer = <<>>]
             n == sent_count(data, env.send)
             w1 == send(w0, data, env.send)
         IN  IF data = <<>> THEN w
             ELSE IF w.dead \/ env.send = "error" THEN _fatal_error(w0, OSError)
             ELSE IF env.send = "block" THEN [w1 EXCEPT !.buffer = <<data>>]
             ELSE IF n = Len(data)
             THEN IF w1.closing
                  THEN _call_connection_lost(remove_writer(w1), None)
                  ELSE remove_writer(w1)
             ELSE [w1 EXCEPT !.buffer = <<SubSeq(data, n + 1, Len(data))>>]

pause_writing(w) ==
    IF w.writing
    THEN IF w.buffer # <<>> /\ w.dead THEN w
         ELSE [(IF w.buffer # <<>> THEN remove_writer(w) ELSE w)
                  EXCEPT !.writing = FALSE, !.pauses = @ + 1]
    ELSE w

resume_writing(w) ==
    IF ~w.writing
    THEN IF w.buffer # <<>> /\ w.dead THEN w
         ELSE [(IF w.buffer # <<>> THEN add_writer(w, "_write_ready") ELSE w)
                  EXCEPT !.writing = TRUE]
    ELSE w

(***************************************************************************)
(* _SelectorSslTransport.                                                  *)
(***************************************************************************)
HandshakeOutcomes == {"done", "want_read", "want_write", "error"}

\* An _on_handshake that goes on to connection_made when do_handshake
\* fails.
_on_handshake_MadeOnError(w, env) ==
    CASE env.hs = "want_read" ->
            [add_reader(w, "_on_handshake") EXCEPT !.stalls = @ + 1]
      [] env.hs = "want_write" ->
            [add_writer(w, "_on_handshake") EXCEPT !.stalls = @ + 1]
      [] OTHER ->
            tr_call_soon(
                tr_call_soon(
                    add_writer(add_reader(remove_writer(remove_reader(
                        [w EXCEPT !.handshake = IF env.hs = "done" THEN "done"
                                                ELSE "failed"])),
                                          "_on_ready"),
                               "_on_ready"),
                    "connection_made", None),
                "waiter.set_result", None)

\* do_handshake raises SSLWantReadError, SSLWantWriteError or another
\* exception, or returns; a waiter that is done already refuses
\* set_exception.
_on_handshake(w, env) ==
    CASE env.hs = "want_read" ->
            [add_reader(w, "_on_handshake") EXCEPT !.stalls = @ + 1]
      [] env.hs = "want_write" ->
            [add_writer(w, "_on_handshake") EXCEPT !.stalls = @ + 1]
      [] env.hs = "error" ->
            [w EXCEPT !.sock_closed = TRUE, !.handshake = "failed",
                      !.waiter = IF @ = None THEN "exception" ELSE @]
      [] env.hs = "done" ->
            tr_call_soon(
                tr_call_soon(
                    add_writer(add_reader(remove_writer(remove_reader(
                        [w EXCEPT !.handshake = "done"])),
                                          "_on_ready"),
                               "_on_ready"),
                    "connection_made", None),
                "waiter.set_result", None)

Ssl_read(w, env) ==
    IF w.closing THEN w
    ELSE CASE env.recv = "block" -> w
           [] env.recv = "reset" -> _force_close(w, ConnectionResetError)
           [] env.recv = "error" -> _fatal_error(w, OSError)
           [] env.recv = "data" -> [w EXCEPT !.received = @ + 1]
           [] env.recv = "eof" -> eof(w, env.keep)

_on_ready(w, env) ==
    LET w1 == Ssl_read(w, env)
        data == join(w1.buffer)
        n == sent_count(data, env.send)
        w2 == IF w1.buffer = <<>> THEN w1
              ELSE LET s == send([w1 EXCEPT !.buffer = <<>>], data, env.send)
                   IN  IF n < Len(data)
                       THEN [s EXCEPT !.buffer = <<SubSeq(data, n + 1, Len(data))>>]
                       ELSE s
    IN  IF w1.buffer # <<>> /\ (w1.dead \/ env.send = "error")
        THEN _fatal_error([w1 EXCEPT !.buffer = <<>>], OSError)
        ELSE IF w2.closing /\ w2.buffer = <<>>
        THEN IF w2.dead THEN w2
             ELSE _call_connection_lost(remove_writer(w2), None)
        ELSE w2

Ssl_write(w, data) ==
    LET w0 == [w EXCEPT !.writes = @ + 1, !.written = @ + Len(data)]
    IN  IF data = <<>> THEN w
        ELSE IF w0.conn_lost # 0
        THEN [w0 EXCEPT !.conn_lost = @ + 1]
        ELSE [w0 EXCEPT !.buffer = Append(@, data)]

(***************************************************************************)
(* _SelectorDatagramTransport.  A datagram is sent whole or not at all.    *)
(***************************************************************************)
DatagramOutcomes == {"full", "refused", "block", "error"}

Datagram_read_ready(w, env) ==
    IF w.dead THEN w
    ELSE CASE env.recv = "block" -> w
           [] env.recv = "error" -> _fatal_error(w, OSError)
           [] OTHER -> [w EXCEPT !.received = @ + 1]

\* A sendto that treats a ConnectionRefusedError as fatal whether or not
\* the transport has a peer address.
sendto_RefusedIsFatal(w, data, env) ==
    LET w0 == [w EXCEPT !.writes = @ + 1, !.written = @ + Len(data)]
        o == env.sends[1]
    IN  IF data = <<>> THEN w
        ELSE IF w0.conn_lost # 0 /\ w0.address
        THEN [w0 EXCEPT !.conn_lost = @ + 1]
        ELSE IF w0.buffer # <<>>
        THEN [w0 EXCEPT !.buffer = Append(@, data)]
        ELSE IF w0.dead \/ o = "error" THEN _fatal_error(w0, OSError)
        ELSE IF o = "refused"
        THEN _fatal_error(refuse(w0), ConnectionRefusedError)
        ELSE IF o = "full" THEN send(w0, data, "full")
        ELSE [add_writer(send(w0, data, "block"), "_sendto_ready")
                 EXCEPT !.buffer = Append(@, data)]

sendto(w, data, env) ==
    LET w0 == [w EXCEPT !.writes = @ + 1, !.written = @ + Len(data)]
        o == env.sends[1]
    IN  IF data = <<>> THEN w
        ELSE IF w0.conn_lost # 0 /\ w0.address
        THEN [w0 EXCEPT !.conn_lost = @ + 1]
        ELSE IF w0.buffer # <<>>
        THEN [w0 EXCEPT !.buffer = Append(@, data)]
        ELSE IF w0.dead \/ o = "error" THEN _fatal_error(w0, OSError)
        ELSE IF o = "refused"
        THEN IF w0.address
             THEN _fatal_error(refuse(w0), ConnectionRefusedError)
             ELSE refuse(w0)
        ELSE IF o = "full" THEN send(w0, data, "full")
        ELSE [add_writer(send(w0, data, "block"), "_sendto_ready")
                 EXCEPT !.buffer = Append(@, data)]

\* The end of _sendto_ready, after its loop.
_sendto_ready_end(w) ==
    IF w.buffer # <<>> \/ w.dead THEN w
    ELSE IF w.closing
    THEN _call_connection_lost(remove_writer(w), None)
    ELSE remove_writer(w)

RECURSIVE _sendto_ready(_, _)
_sendto_ready(w, outcomes) ==
    IF w.buffer = <<>> THEN _sendto_ready_end(w)
    ELSE LET data == Head(w.buffer)
             o == Head(outcomes)
             w0 == [w EXCEPT !.buffer = Tail(@)]
         IN  IF w.dead \/ o = "error" THEN _fatal_error(w0, OSError)
             ELSE IF o = "refused"
             THEN IF w.address
                  THEN _fatal_error(refuse(w0), ConnectionRefusedError)
                  ELSE refuse(w0)
             ELSE IF o = "block" THEN _sendto_ready_end(send(w, data, "block"))
             ELSE _sendto_ready(send(w0, data, "full"), Tail(outcomes))

(***************************************************************************)
(* Dispatch of one handle of the transport's loop.                         *)
(***************************************************************************)
Env(recv, send_, keep, hs, sends) ==
    [recv |-> recv, send |-> send_, keep |-> keep, hs |-> hs, sends |-> sends]

NoEnv == Env("block", "full", FALSE, "done", <<>>)

\* The outcomes the socket calls of a handler can have.
EnvFor(w, fn) ==
    CASE fn = "_read_ready" ->
            {[NoEnv EXCEPT !.recv = r, !.keep = k] :
                 r \in RecvOutcomes, k \in BOOLEAN}
      [] fn = "_write_ready" -> {[NoEnv EXCEPT !.send = s] : s \in SendOutcomes}
      [] fn = "_on_ready" ->
            {[NoEnv EXCEPT !.recv = r, !.keep = k, !.send = s] :
                 r \in RecvOutcomes, k \in BOOLEAN, s \in SendOutcomes}
      \* do_handshake on a socket that has been closed raises
      [] fn = "_on_handshake" ->
            {[NoEnv EXCEPT !.hs = h] :
                 h \in IF w.sock_closed THEN {"error"} ELSE HandshakeOutcomes}
      [] fn = "_sendto_ready" ->
            {[NoEnv EXCEPT !.sends = s] :
                 s \in [1..Len(w.buffer) -> DatagramOutcomes]}
      [] OTHER -> {NoEnv}

TrRunCallback(w, hd, env) ==
    CASE hd.fn = "connection_made" ->
            [w EXCEPT !.made = TRUE, !.mades = @ + 1]
      [] hd.fn = "waiter.set_result" -> [w EXCEPT !.waiter = "result"]
      [] hd.fn = "_call_connection_lost" -> _call_connection_lost(w, hd.arg)
      [] hd.fn = "_read_ready" ->
            IF w.kind = "datagram"
            THEN Datagram_read_ready(w, env)
            ELSE Socket_read_ready(w, env)
      [] hd.fn = "_write_ready" -> Socket_write_ready(w, env)
      [] hd.fn = "_sendto_ready" -> _sendto_ready(w, env.sends)
      [] hd.fn = "_on_handshake" -> _on_handshake(w, env)
      [] hd.fn = "_on_ready" -> _on_ready(w, env)

tr_run_once(w, env) ==
    LET hd == Head(w.ready)
        w1 == [w EXCEPT !.ready = Tail(@)]
    IN  IF hd.cancelled THEN w1 ELSE TrRunCallback(w1, hd, env)

\* _process_events: the selector reports the fd ready for io, and the handle
\* registered for it joins the ready queue.
_process_events(w, io) ==
    [w EXCEPT !.ready = Append(@, TrHandle(IF io = "r" THEN w.reader
                                           ELSE w.writer, None, io))]

(***************************************************************************)
(* The event loop core: the ready queue, the timer heap, the reader and    *)
(* the writer of one file descriptor, and one iteration of the loop.  A    *)
(* handle is numbered in the order in which it was created; its callback,  *)
(* when run, may itself call call_soon, call_later or remove_reader, or    *)
(* raise.                                                                  *)
(***************************************************************************)
\* Handle(callback, args): does is what the callback does when it runs.
\* made and during record the iteration in which the handle was created and
\* whether a callback that the loop was dispatching created it.
LoopHandle(id, does, made, during) ==
    [id |-> id, does |-> does, timer |-> FALSE, when |-> 0,
     made |-> made, during |-> during]

TimerHandle(when, id, does, made, during) ==
    [LoopHandle(id, does, made, during) EXCEPT !.timer = TRUE, !.when = when]

\* A comparison that puts the later deadline first.
TimerHandle_lt_Reversed(a, b) == a.when > b.when

\* TimerHandle.__lt__
TimerHandle_lt(a, b) == a.when < b.when

\* No Handle: what the selector holds for an event that has no callback.
NoHandle == LoopHandle(0, "pass", 0, FALSE)

\* registered tells whether the selector has a key for the one file
\* descriptor, mask is the events it is registered for and (reader, writer)
\* the data of the key;
\* events is what select reported in the last iteration.  logged lists the
\* handles whose exception went to the log, killed is the exception that left
\* the iteration, and ran_cancelled the handles that were run though
\* cancelled.
NewLoop ==
    [ready |-> <<>>, scheduled |-> <<>>, cancelled |-> {}, time |-> 0,
     iteration |-> 0, handles |-> 0, log |-> <<>>,
     registered |-> FALSE, mask |-> {},
     reader |-> NoHandle, writer |-> NoHandle, events |-> {},
     logged |-> <<>>, killed |-> None, ran_cancelled |-> {}]

NoLoop == [NewLoop EXCEPT !.iteration = -1]

\* The binary heap that holds the timers, in a list: the item at position
\* pos moves up towards startpos while it is less than its parent.
RECURSIVE _siftdown(_, _, _, _)
_siftdown(heap, startpos, pos, newitem) ==
    IF pos > startpos /\ TimerHandle_lt(newitem, heap[pos \div 2])
    THEN _siftdown([heap EXCEPT ![pos] = heap[pos \div 2]], startpos,
                   pos \div 2, newitem)
    ELSE [heap EXCEPT ![pos] = newitem]

\* The smaller child moves up until a leaf is reached; newitem is put there
\* and moves up to its place.
RECURSIVE _siftup(_, _, _, _)
_siftup(heap, startpos, pos, newitem) ==
    LET childpos == 2 * pos
        rightpos == childpos + 1
        c == IF rightpos <= Len(heap)
                /\ ~TimerHandle_lt(heap[childpos], heap[rightpos])
             THEN rightpos
             ELSE childpos
    IN  IF childpos <= Len(heap)
        THEN _siftup([heap EXCEPT ![pos] = heap[c]], startpos, c, newitem)
        ELSE _siftdown([heap EXCEPT ![pos] = newitem], startpos, pos, newitem)

heappush(heap, item) ==
    _siftdown(Append(heap, item), 1, Len(heap) + 1, item)

\* The heap that is left when its smallest item heap[1] has been popped.
heappop(heap) ==
    LET lastelt == heap[Len(heap)]
        rest == SubSeq(heap, 1, Len(heap) - 1)
    IN  IF rest = <<>> THEN rest ELSE _siftup(rest, 1, 1, lastelt)

\* A call_soon that puts the handle at the head of the ready queue.
Loop_call_soon_Front(l, does, during) ==
    [l EXCEPT !.handles = @ + 1,
              !.ready = <<LoopHandle(l.handles + 1, does, l.iteration, during)>>
                            \o @]

Loop_call_soon(l, does, during) ==
    [l EXCEPT !.handles = @ + 1,
              !.ready = Append(@, LoopHandle(l.handles + 1, does,
                                             l.iteration, during))]

Loop_call_at(l, when, does, during) ==
    [l EXCEPT !.handles = @ + 1,
              !.scheduled = heappush(@, TimerHandle(when, l.handles + 1, does,
                                                    l.iteration, during))]

Loop_call_later(l, delay, does, during) ==
    Loop_call_at(l, l.time + delay, does, during)

\* Handle.cancel
LoopHandle_cancel(l, id) == [l EXCEPT !.cancelled = @ \cup {id}]

\* Step 1 of an iteration: the timers that are due move from the heap to the
\* end of the ready queue; a cancelled timer is dropped when it is popped.
RECURSIVE move_due(_)
move_due(l) ==
    IF l.scheduled = <<>> \/ l.scheduled[1].when > l.time
    THEN l
    ELSE LET h == l.scheduled[1]
             l1 == [l EXCEPT !.scheduled = heappop(@)]
         IN  move_due(IF h.id \in l.cancelled
                      THEN l1
                      ELSE [l1 EXCEPT !.ready = Append(@, h)])

\* add_reader: get_info raises KeyError for a file descriptor that is not
\* registered; the handle that was registered before is cancelled.
Loop_add_reader(l, does) ==
    LET handle == LoopHandle(l.handles + 1, does, l.iteration, FALSE)
        l1 == [l EXCEPT !.handles = @ + 1]
        l2 == [l1 EXCEPT !.mask = @ \cup {"r"}, !.reader = handle]
    IN  IF ~l.registered
        THEN [l1 EXCEPT !.registered = TRUE, !.mask = {"r"},
                        !.reader = handle, !.writer = NoHandle]
        ELSE IF l.reader # NoHandle
        THEN LoopHandle_cancel(l2, l.reader.id)
        ELSE l2

\* remove_reader: the key is unregistered when no event is left in its mask.
Loop_remove_reader(l) ==
    LET mask == l.mask \ {"r"}
        l1 == IF mask = {}
              THEN [l EXCEPT !.registered = FALSE, !.mask = {},
                             !.reader = NoHandle, !.writer = NoHandle]
              ELSE [l EXCEPT !.mask = mask, !.reader = NoHandle]
    IN  IF ~l.registered
        THEN l
        ELSE IF l.reader # NoHandle
        THEN LoopHandle_cancel(l1, l.reader.id)
        ELSE l1

\* An add_writer that registers the file descriptor for EVENT_READ.
Loop_add_writer_ReadMask(l, does) ==
    LET handle == LoopHandle(l.handles + 1, does, l.iteration, FALSE)
        l1 == [l EXCEPT !.handles = @ + 1]
        l2 == [l1 EXCEPT !.mask = @ \cup {"r"}, !.writer = handle]
    IN  IF ~l.registered
        THEN [l1 EXCEPT !.registered = TRUE, !.mask = {"r"},
                        !.reader = NoHandle, !.writer = handle]
        ELSE IF l.writer # NoHandle
        THEN LoopHandle_cancel(l2, l.writer.id)
        ELSE l2

Loop_add_writer(l, does) ==
    LET handle == LoopHandle(l.handles + 1, does, l.iteration, FALSE)
        l1 == [l EXCEPT !.handles = @ + 1]
        l2 == [l1 EXCEPT !.mask = @ \cup {"w"}, !.writer = handle]
    IN  IF ~l.registered
        THEN [l1 EXCEPT !.registered = TRUE, !.mask = {"w"},
                        !.reader = NoHandle, !.writer = handle]
        ELSE IF l.writer # NoHandle
        THEN LoopHandle_cancel(l2, l.writer.id)
        ELSE l2

Loop_remove_writer(l) ==
    LET mask == l.mask \ {"w"}
        l1 == IF mask = {}
              THEN [l EXCEPT !.registered = FALSE, !.mask = {},
                             !.reader = NoHandle, !.writer = NoHandle]
              ELSE [l EXCEPT !.mask = mask, !.writer = NoHandle]
    IN  IF ~l.registered
        THEN l
        ELSE IF l.writer # NoHandle
        THEN LoopHandle_cancel(l1, l.writer.id)
        ELSE l1

\* _add_callback: a cancelled handle is not added.
Loop_add_callback(l, handle) ==
    IF handle.id \in l.cancelled
    THEN l
    ELSE [l EXCEPT !.ready = Append(@, handle)]

\* A _process_events that leaves a cancelled reader or writer registered.
Loop_process_events_KeepCancelled(l, mask) ==
    LET l1 == IF "r" \in mask /\ l.reader # NoHandle
              THEN Loop_add_callback(l, l.reader)
              ELSE l
    IN  IF "w" \in mask /\ l.writer # NoHandle
        THEN Loop_add_callback(l1, l.writer)
        ELSE l1

\* _process_events for the one file descriptor: mask is what select reported
\* ready, (l.reader, l.writer) the data registered for it.
Loop_process_events(l, mask) ==
    LET l1 == IF "r" \in mask /\ l.reader # NoHandle
              THEN IF l.reader.id \in l.cancelled
                   THEN Loop_remove_reader(l)
                   ELSE Loop_add_callback(l, l.reader)
              ELSE l
    IN  IF "w" \in mask /\ l.writer # NoHandle
        THEN IF l.writer.id \in l.cancelled
             THEN Loop_remove_writer(l1)
             ELSE Loop_add_callback(l1, l.writer)
        ELSE l1

\* The exceptions a callback raises: one that derives from Exception, and
\* one that derives from BaseException only (KeyboardInterrupt, SystemExit).
Exception == "Exception"
BaseException == "BaseException"

\* self._callback(*self._args): what the callback does, and what it raises.
LoopCallback(l, h) ==
    CASE h.does = "call_soon" -> Ret(Loop_call_soon(l, "pass", TRUE), None, None)
      [] h.does = "call_later" ->
            Ret(Loop_call_later(l, 0, "pass", TRUE), None, None)
      [] h.does = "remove_reader" -> Ret(Loop_remove_reader(l), None, None)
      [] h.does = "raise" -> Ret(l, None, Exception)
      [] h.does = "raise_base" -> Ret(l, None, BaseException)
      [] OTHER -> Ret(l, None, None)

\* A _run that catches nothing.
LoopHandle_run_NoExcept(l, h) ==
    LET l1 == [l EXCEPT !.log = Append(@, [id |-> h.id, timer |-> h.timer,
                                           when |-> h.when, made |-> h.made,
                                           during |-> h.during,
                                           iteration |-> l.iteration]),
                        !.ran_cancelled = IF h.id \in l.cancelled
                                          THEN @ \cup {h.id} ELSE @]
        r == LoopCallback(l1, h)
    IN  [r.w EXCEPT !.killed = r.exc]

\* Handle._run: the callback runs; the log records the handle and the
\* iteration.  An Exception is logged; any other exception leaves _run.
LoopHandle_run(l, h) ==
    LET l1 == [l EXCEPT !.log = Append(@, [id |-> h.id, timer |-> h.timer,
                                           when |-> h.when, made |-> h.made,
                                           during |-> h.during,
                                           iteration |-> l.iteration]),
                        !.ran_cancelled = IF h.id \in l.cancelled
                                          THEN @ \cup {h.id} ELSE @]
        r == LoopCallback(l1, h)
    IN  CASE r.exc = None -> r.w
          [] r.exc = Exception -> [r.w EXCEPT !.logged = Append(@, h.id)]
          [] OTHER -> [r.w EXCEPT !.killed = r.exc]

\* Step 4: the first ntodo handles of the ready queue are run, the cancelled
\* ones skipped.  An exception that leaves a handle's _run leaves the
\* iteration.
RECURSIVE drain(_, _)
drain(l, ntodo) ==
    IF ntodo = 0 \/ l.killed # None
    THEN l
    ELSE LET h == Head(l.ready)
             l1 == [l EXCEPT !.ready = Tail(@)]
         IN  drain(IF h.id \in l.cancelled THEN l1 ELSE LoopHandle_run(l1, h),
                   ntodo - 1)

\* An iteration that runs handles until the ready queue is empty.
RECURSIVE drain_all(_)
drain_all(l) ==
    IF l.ready = <<>> THEN l ELSE drain_all(drain(l, 1))

Loop_run_once_DrainAll(l) ==
    drain_all(move_due([l EXCEPT !.iteration = @ + 1]))

\* One iteration: the due timers, the selector (which has nothing to report)
\* and the ready queue as it is when the drain starts.
Loop_run_once(l) ==
    LET l1 == move_due([l EXCEPT !.iteration = @ + 1])
    IN  drain(l1, Len(l1.ready))

\* One iteration in which select reports mask for the file descriptor.
Loop_run_once_select(l, mask) ==
    LET l1 == Loop_process_events(
                  move_due([l EXCEPT !.iteration = @ + 1, !.events = mask]),
                  mask)
    IN  drain(l1, Len(l1.ready))

(***************************************************************************)
(* Parsers.  A ParserBuffer is a bytearray with a read cursor: data is the *)
(* bytearray, offset the cursor (counted from 0) and size the number of    *)
(* bytes behind the cursor.  A primitive of the ParserBuffer is a          *)
(* generator that loops around one yield: its operator is one pass of the  *)
(* loop, which returns, raises, or waits for the next chunk.               *)
(***************************************************************************)
EofStream == "EofStream"

\* len(self) above which _feed_data shrinks the buffer.
ShrinkThreshold == 5120

ParserBuffer == [data |-> <<>>, offset |-> 0, size |-> 0]

_shrink(b) ==
    IF b.offset # 0
    THEN [data |-> SubSeq(b.data, b.offset + 1, Len(b.data)), offset |-> 0,
          size |-> Len(b.data) - b.offset]
    ELSE b

\* ParserBuffer._feed_data: what the writer does with a chunk sent to it.
ParserBuffer_feed_data(b, chunk) ==
    LET b1 == [b EXCEPT !.size = @ + Len(chunk), !.data = @ \o chunk]
    IN  IF chunk = <<>> THEN b
        ELSE IF b1.offset # 0 /\ Len(b1.data) > ShrinkThreshold THEN _shrink(b1)
        ELSE b1

\* bytes(buf): the bytes behind the cursor.
ParserBuffer_bytes(b) == SubSeq(b.data, b.offset + 1, Len(b.data))

\* bytearray.find(stop, start): the lowest index from 0, not below start, at
\* which stop is found in data, or -1.
\* A negative start counts from the end, as in a slice.
bytearray_find(data, stop, start) ==
    LET first == IF start >= 0 THEN start
                 ELSE IF Len(data) + start > 0 THEN Len(data) + start
                 ELSE 0
        found == {pos \in first..(Len(data) - Len(stop)) :
                     SubSeq(data, pos + 1, pos + Len(stop)) = stop}
    IN  IF found = {} THEN -1
        ELSE CHOOSE pos \in found : \A q \in found : pos <= q

\* What one pass of a primitive's loop gives: the buffer, and the value
\* returned, the exception raised, or wait (the yield is reached).
Pass(b, ret, exc, wait) == [buf |-> b, ret |-> ret, exc |-> exc, wait |-> wait]

ParserBuffer_read(b, size) ==
    IF b.size >= size
    THEN Pass([b EXCEPT !.offset = @ + size, !.size = @ - size],
              SubSeq(b.data, b.offset + 1, b.offset + size), None, FALSE)
    ELSE Pass(b, <<>>, None, TRUE)

\* readsome(size): NoSize stands for size=None.
NoSize == -1

ParserBuffer_readsome(b, size) ==
    LET n == IF size = NoSize \/ b.size < size THEN b.size ELSE size
    IN  IF b.size > 0
        THEN Pass([b EXCEPT !.offset = @ + n, !.size = @ - n],
                  SubSeq(b.data, b.offset + 1, b.offset + n), None, FALSE)
        ELSE Pass(b, <<>>, None, TRUE)

ParserBuffer_skip(b, size) ==
    IF b.size < size
    THEN Pass(b, <<>>, None, TRUE)
    ELSE Pass([b EXCEPT !.size = @ - size, !.offset = @ + size],
              <<>>, None, FALSE)

ParserBuffer_skipuntil(b, stop) ==
    LET stop_line == bytearray_find(b.data, stop, b.offset)
        end == stop_line + Len(stop)
    IN  IF stop_line >= 0
        THEN Pass([b EXCEPT !.size = @ - (end - b.offset), !.offset = end],
                  <<>>, None, FALSE)
        ELSE Pass([b EXCEPT !.size = 0, !.offset = Len(b.data) - 1],
                  <<>>, None, TRUE)

\* A readuntil that drops the bytes in which it did not find stop.
ParserBuffer_readuntil_DropsScanned(b, stop, limit) ==
    LET pos == bytearray_find(b.data, stop, b.offset)
        end == pos + Len(stop)
        size == end - b.offset
    IN  IF pos >= 0
        THEN IF size > limit
             THEN Pass(b, <<>>, ValueError, FALSE)
             ELSE Pass([b EXCEPT !.offset = end, !.size = @ - size],
                       SubSeq(b.data, b.offset + 1, end), None, FALSE)
        ELSE IF b.size > limit
             THEN Pass(b, <<>>, ValueError, FALSE)
             ELSE Pass([b EXCEPT !.offset = Len(b.data), !.size = 0],
                       <<>>, None, TRUE)

ParserBuffer_readuntil(b, stop, limit) ==
    LET pos == bytearray_find(b.data, stop, b.offset)
        end == pos + Len(stop)
        size == end - b.offset
    IN  IF pos >= 0
        THEN IF size > limit
             THEN Pass(b, <<>>, ValueError, FALSE)
             ELSE Pass([b EXCEPT !.offset = end, !.size = @ - size],
                       SubSeq(b.data, b.offset + 1, end), None, FALSE)
        ELSE IF b.size > limit
             THEN Pass(b, <<>>, ValueError, FALSE)
             ELSE Pass(b, <<>>, None, TRUE)

\* DataBuffer: the items, the eof flag and the exception; no task reads, so
\* there is no waiter.
DataBuffer == [buffer |-> <<>>, eof |-> FALSE, exception |-> None]

DataBuffer_set_exception(out, exc) == [out EXCEPT !.exception = exc]

DataBuffer_feed_data(out, data) == [out EXCEPT !.buffer = Append(@, data)]

DataBuffer_feed_eof(out) == [out EXCEPT !.eof = TRUE]

\* The parsers.  head_parser is what the parsers of the HTTP messages do:
\* one readuntil of a stop of several bytes, one item, feed_eof, and the
\* parser returns; an EofStream thrown into it is caught.
lines_parser(limit) == [fn |-> "lines_parser", arg |-> limit]

chunks_parser(size) == [fn |-> "chunks_parser", arg |-> size]

head_parser(limit) == [fn |-> "head_parser", arg |-> limit]

\* self._parser = None
NoParser == [fn |-> None, arg |-> 0]

\* The stop of head_parser: two line ends.
HeadStop == <<NL, NL>>

\* The parser p with its (out, buf), and how it left off: "yield" (it waits
\* for bytes), "return" (StopIteration) or the exception it raised.
Parser(p, out, b, left) == [p |-> p, out |-> out, buf |-> b, left |-> left]

\* The parser runs from the top of its loop until it yields, returns or
\* raises.
RECURSIVE parser_run(_)
parser_run(g) ==
    LET r == CASE g.p.fn = "lines_parser" ->
                     ParserBuffer_readuntil(g.buf, <<NL>>, g.p.arg)
               [] g.p.fn = "chunks_parser" ->
                     ParserBuffer_read(g.buf, g.p.arg)
               [] g.p.fn = "head_parser" ->
                     ParserBuffer_readuntil(g.buf, HeadStop, g.p.arg)
        out1 == DataBuffer_feed_data(g.out, r.ret)
    IN  IF r.wait THEN Parser(g.p, g.out, r.buf, "yield")
        ELSE IF r.exc # None THEN Parser(g.p, g.out, r.buf, r.exc)
        ELSE IF g.p.fn = "head_parser"
        THEN Parser(g.p, DataBuffer_feed_eof(out1), r.buf, "return")
        ELSE parser_run(Parser(g.p, out1, r.buf, "yield"))

\* parser.send(data) at the yield of a primitive: the primitive sends the
\* chunk to the buffer's writer and loops.
parser_send(g, data) ==
    parser_run([g EXCEPT !.buf = ParserBuffer_feed_data(@, data)])

\* parser.throw(EofStream()) at the yield of a primitive.
parser_throw(g) ==
    [g EXCEPT !.left = IF g.p.fn = "head_parser" THEN "return" ELSE EofStream]

\* StreamBuffer: parser is NoParser or the parser attached, out the DataBuffer
\* that set_parser returned (_parser_buffer while the parser is attached).
StreamBuffer ==
    [buffer |-> ParserBuffer, eof |-> FALSE, parser |-> NoParser,
     out |-> DataBuffer, exception |-> None]

\* What StreamBuffer does with a parser that was sent or thrown something:
\* it stays attached if it yielded; StopIteration detaches it, EofStream
\* feeds eof, another exception is set on the DataBuffer.
StreamBuffer_after(sb, g) ==
    LET sb1 == [sb EXCEPT !.buffer = g.buf, !.out = g.out]
    IN  CASE g.left = "yield" -> [sb1 EXCEPT !.parser = g.p]
          [] g.left = "return" -> [sb1 EXCEPT !.parser = NoParser]
          [] g.left = EofStream ->
                [sb1 EXCEPT !.parser = NoParser, !.out = DataBuffer_feed_eof(@)]
          [] OTHER ->
                [sb1 EXCEPT !.parser = NoParser,
                            !.out = DataBuffer_set_exception(@, g.left)]

StreamBuffer_attached(sb) == Parser(sb.parser, sb.out, sb.buffer, "yield")

StreamBuffer_feed_data(sb, data) ==
    IF data = <<>> THEN sb
    ELSE IF sb.parser # NoParser
    THEN StreamBuffer_after(sb, parser_send(StreamBuffer_attached(sb), data))
    ELSE [sb EXCEPT !.buffer = ParserBuffer_feed_data(@, data)]

StreamBuffer_unset_parser(sb) ==
    StreamBuffer_after(sb, parser_throw(StreamBuffer_attached(sb)))

StreamBuffer_feed_eof(sb) ==
    [(IF sb.parser # NoParser THEN StreamBuffer_unset_parser(sb) ELSE sb)
        EXCEPT !.eof = TRUE]

StreamBuffer_set_parser(sb, p) ==
    LET sb0 == IF sb.parser # NoParser THEN StreamBuffer_unset_parser(sb) ELSE sb
        sb1 == [sb0 EXCEPT !.out = DataBuffer]
        sb2 == StreamBuffer_after(
                   sb1, parser_run(Parser(p, sb1.out, sb1.buffer, "yield")))
    IN  IF sb1.exception # None
        THEN [sb1 EXCEPT !.out = DataBuffer_set_exception(@, sb1.exception)]
        ELSE IF sb2.parser # NoParser /\ sb2.eof
        THEN StreamBuffer_unset_parser(sb2)
        ELSE sb2

\* The two StreamBuffers that are fed the bytes S: whole in one chunk, and
\* split in chunks; cuts lists the lengths of the chunks fed so far.
Parsers(p, S) ==
    [p |-> p, S |-> S,
     whole |-> StreamBuffer_set_parser(StreamBuffer, p),
     split |-> StreamBuffer_set_parser(StreamBuffer, p),
     cuts |-> <<>>, whole_fed |-> FALSE]

NoParsers == Parsers(lines_parser(0), <<>>)

\* A DataBuffer and the task that reads it: out holds the items, the eof
\* flag and the exception, waiter is the _waiter attribute ("W" when it
\* references the Future wfut), rd the reading task and its coroutine.  The
\* items fed are numbered; got lists what read() returned, raised is what
\* the last feed_data, feed_eof or set_exception call raised.
\* The None that read() returns at EOF, among the numbered items.
NoItem == 0

DataReader ==
    [kind |-> "data", out |-> DataBuffer, waiter |-> None, wfut |-> NoFuture,
     rd |-> [status |-> "idle", must_cancel |-> FALSE, ret |-> NoItem,
             exc |-> None],
     fed |-> 0, got |-> <<>>, raised |-> None, reads |-> 0, cancels |-> 0]

\* The waiter of a feed_data or feed_eof: self._waiter = None, then
\* waiter.set_result, which raises when the Future is done.
Data_wake(x) ==
    IF x.waiter = None THEN [x EXCEPT !.raised = None]
    ELSE IF x.wfut.state # PENDING
    THEN [x EXCEPT !.waiter = None, !.raised = InvalidStateError]
    ELSE [x EXCEPT !.waiter = None, !.wfut.state = FINISHED, !.raised = None]

Data_feed_data(x, data) ==
    Data_wake([x EXCEPT !.out = DataBuffer_feed_data(@, data)])

Data_feed_eof(x) == Data_wake([x EXCEPT !.out = DataBuffer_feed_eof(@)])

\* set_exception skips a waiter that is cancelled.
Data_set_exception(x, exc) ==
    LET x1 == [x EXCEPT !.out = DataBuffer_set_exception(@, exc),
                        !.raised = None]
    IN  IF x1.waiter = None THEN x1
        ELSE IF x1.wfut.state = CANCELLED THEN [x1 EXCEPT !.waiter = None]
        ELSE IF x1.wfut.state # PENDING
        THEN [x1 EXCEPT !.waiter = None, !.raised = InvalidStateError]
        ELSE [x1 EXCEPT !.waiter = None, !.wfut.state = FINISHED,
                        !.wfut.exception = exc]

Data_return(x, value) ==
    [x EXCEPT !.rd.status = "done", !.rd.ret = value, !.rd.exc = None,
              !.got = IF value = NoItem THEN @ ELSE Append(@, value)]

Data_raise(x, exc) ==
    [x EXCEPT !.rd.status = "done", !.rd.ret = NoItem, !.rd.exc = exc]

\* read() after its wait: the first item, or None.
Data_read_body(x) ==
    IF x.out.buffer # <<>>
    THEN Data_return([x EXCEPT !.out.buffer = Tail(@)], Head(x.out.buffer))
    ELSE Data_return(x, NoItem)

\* read() up to its yield from.
Data_read(x) ==
    IF x.out.exception # None THEN Data_raise(x, x.out.exception)
    ELSE IF x.out.buffer = <<>> /\ ~x.out.eof
    THEN IF x.waiter # None
         THEN Data_raise(x, AssertionError)
         ELSE [x EXCEPT !.waiter = "W",
                        !.wfut = [state |-> PENDING, exception |-> None],
                        !.rd.status = "suspended"]
    ELSE Data_read_body(x)

\* Task._step of the reading task, suspended in read().
Data_step(x) ==
    LET x1 == [x EXCEPT !.rd.status = "running"]
    IN  IF x.rd.must_cancel \/ x.wfut.state = CANCELLED
        THEN Data_raise(x1, CancelledError)
        ELSE IF x.wfut.exception # None
        THEN Data_raise(x1, x.wfut.exception)
        ELSE Data_read_body(x1)

\* Task.cancel of the reading task.
Data_cancel(x) ==
    IF x.wfut.state = PENDING
    THEN [x EXCEPT !.wfut.state = CANCELLED, !.cancels = @ + 1]
    ELSE [x EXCEPT !.rd.must_cancel = TRUE, !.cancels = @ + 1]

\* A ParserBuffer used directly: op is the primitive whose generator is
\* suspended at its yield (NoOp when there is none), fed the number of bytes
\* fed so far, ops the number of primitives started and started their names,
\* last what the last call did.
BufOp(fn, arg) == [fn |-> fn, arg |-> arg]

NoOp == BufOp(None, 0)

BufferUse ==
    [kind |-> "buffer", buf |-> ParserBuffer, op |-> NoOp, fed |-> 0,
     ops |-> 0, started |-> {}, last |-> None, exc |-> None]

\* One pass of the loop of the primitive op.
BufPass(b, op) ==
    CASE op.fn = "read" -> ParserBuffer_read(b, op.arg)
      [] op.fn = "readsome" -> ParserBuffer_readsome(b, op.arg)
      [] op.fn = "readuntil" -> ParserBuffer_readuntil(b, <<NL>>, op.arg)
      [] op.fn = "skip" -> ParserBuffer_skip(b, op.arg)
      [] op.fn = "skipuntil" -> ParserBuffer_skipuntil(b, <<NL>>)

\* The generator of op runs to its next yield, to its return or to the
\* exception it raises.
BufRun(u, b, op) ==
    LET r == BufPass(b, op)
    IN  [u EXCEPT !.buf = r.buf,
                  !.op = IF r.wait THEN op ELSE NoOp,
                  !.last = op.fn,
                  !.exc = r.exc]

\* No lock, condition, semaphore or queue.
NoSync == [kind |-> None]

(***************************************************************************)
(* Lock and Condition, as section 4.9 of the specification describes them  *)
(* ("a FIFO of waiter Futures"; acquire returns at once or creates a       *)
(* waiter; release resolves the head waiter; wait releases, suspends and   *)
(* reacquires), with tests/locks_test.py settling what the section leaves  *)
(* open.  The Futures and the cancellation of a suspended task are those   *)
(* of tulip/futures.py and tulip/tasks.py.                                 *)
(*                                                                         *)
(* pc[t] is where task t stands: "idle", "acquire" (suspended on a waiter  *)
(* of the lock), "held" (in the protected region), "wait" (suspended on a  *)
(* waiter of the condition), "unwind" (leaving the protected region with   *)
(* CancelledError), "done", "cancelled".  out[t] is the outcome wait() has *)
(* in store while it reacquires the lock.  holders and exit are history:   *)
(* who is in the protected region, and how the last wait() ended.          *)
(***************************************************************************)
SyTasks == 1 .. NumSyTasks

\* A waiter Future of task t; timeout says it was created with a timeout.
Waiter(t, timeout) ==
    [t |-> t, state |-> PENDING, timeout |-> timeout, timed_out |-> FALSE]

\* A Lock (or the Lock and the queue of a Condition) and the tasks using it.
NewLock(users) ==
    [kind |-> "lock", locked |-> FALSE, waiters |-> <<>>, cwaiters |-> <<>>,
     pc |-> [t \in users |-> "idle"],
     must_cancel |-> [t \in users |-> FALSE],
     out |-> [t \in users |-> None],
     holders |-> {}, exit |-> [t |-> 0, out |-> None, held |-> TRUE]]

\* The waiter of task t in queue q, and q without it.
WaiterIn(q, t) == q[CHOOSE i \in DOMAIN q : q[i].t = t]

Without(q, t) == SelectSeq(q, LAMBDA w : w.t # t)

\* Resolving the waiters that came last instead of those that came first.
WakeFirst_Last(q, n) ==
    [i \in DOMAIN q |->
        IF /\ q[i].state = PENDING
           /\ Cardinality({j \in i .. Len(q) : q[j].state = PENDING}) <= n
        THEN [q[i] EXCEPT !.state = FINISHED]
        ELSE q[i]]

\* set_result(True) on the first n waiters of q that are still pending: a
\* cancelled waiter stays queued until its task runs, and cannot be resolved.
WakeFirst(q, n) ==
    [i \in DOMAIN q |->
        IF /\ q[i].state = PENDING
           /\ Cardinality({j \in 1 .. i : q[j].state = PENDING}) <= n
        THEN [q[i] EXCEPT !.state = FINISHED]
        ELSE q[i]]

\* The end of acquire(): "self._locked = True; return True".  When the
\* acquire is the one that ends a wait(), the wait() ends with out.
Lock_enter(s, t, out) ==
    [s EXCEPT !.locked = TRUE,
              !.holders = @ \cup {t},
              !.pc[t] = IF out = CancelledError THEN "unwind" ELSE "held",
              !.exit = IF out = None THEN @
                       ELSE [t |-> t, out |-> out, held |-> TRUE],
              !.out[t] = None]

\* Lock.acquire(): returns at once when the lock is free and nobody waits
\* (test_acquire: a late comer queues behind a woken waiter), else parks.
Lock_acquire(s, t, out) ==
    IF ~s.locked /\ s.waiters = <<>>
    THEN Lock_enter(s, t, out)
    ELSE [s EXCEPT !.waiters = Append(@, Waiter(t, FALSE)),
                   !.pc[t] = "acquire",
                   !.out[t] = out]

\* The task suspended in acquire() runs again: Task._step throws
\* CancelledError into it when must_cancel is set, Task._wakeup when the
\* waiter was cancelled; acquire() removes its waiter either way
\* (test_acquire_cancel).
acquire_wakeup(s, t) ==
    LET s1 == [s EXCEPT !.waiters = Without(@, t)]
    IN  IF s.must_cancel[t] \/ WaiterIn(s.waiters, t).state = CANCELLED
        THEN [s1 EXCEPT
                !.pc[t] = "cancelled",
                !.exit = IF s.out[t] = None THEN @
                         ELSE [t |-> t, out |-> CancelledError,
                               held |-> FALSE],
                !.out[t] = None]
        ELSE Lock_enter(s1, t, s.out[t])

\* Lock.release(): RuntimeError when the lock is not held
\* (test_release_not_acquired); else unlock and resolve the head waiter.
Lock_release(s, t) ==
    IF ~s.locked
    THEN s
    ELSE [s EXCEPT !.locked = FALSE,
                   !.waiters = WakeFirst(@, 1),
                   !.holders = @ \ {t},
                   !.pc[t] = IF @ = "unwind" THEN "cancelled" ELSE "done"]

\* Condition.wait(): RuntimeError without the lock (test_wait_unacquired);
\* else release the lock and park on the condition's own queue.
Condition_wait(s, t, timeout) ==
    IF ~s.locked
    THEN s
    ELSE [Lock_release(s, t) EXCEPT
            !.cwaiters = Append(@, Waiter(t, timeout)),
            !.pc[t] = "wait"]

\* The task suspended in wait() runs again: the waiter leaves the queue
\* (test_wait_cancel), the outcome is True after a notify, False after the
\* timeout (test_wait_timeout), CancelledError after a cancellation
\* (test_wait_cancel), and the lock is acquired again before wait() ends.
wait_wakeup(s, t) ==
    LET w == WaiterIn(s.cwaiters, t)
        out == IF s.must_cancel[t] \/ (w.state = CANCELLED /\ ~w.timed_out)
               THEN CancelledError
               ELSE IF w.state = CANCELLED THEN "False" ELSE "True"
    IN  Lock_acquire([s EXCEPT !.cwaiters = Without(@, t)], t, out)

\* Condition.notify(n): wakes up to n waiters of the condition.
Condition_notify(s, n) == [s EXCEPT !.cwaiters = WakeFirst(@, n)]

\* Task.cancel() of the task suspended on its waiter in queue q: the
\* waiter is cancelled; when it is already done, must_cancel is set.
cancel_waiting(s, t) ==
    LET inLock == s.pc[t] = "acquire"
        q == IF inLock THEN s.waiters ELSE s.cwaiters
        q1 == [i \in DOMAIN q |->
                 IF q[i].t = t THEN [q[i] EXCEPT !.state = CANCELLED]
                 ELSE q[i]]
    IN  IF WaiterIn(q, t).state # PENDING
        THEN [s EXCEPT !.must_cancel[t] = TRUE]
        ELSE IF inLock THEN [s EXCEPT !.waiters = q1]
             ELSE [s EXCEPT !.cwaiters = q1]

\* The timeout of task t's waiter expires: the timer calls Future.cancel.
timeout_expires(s, t) ==
    [s EXCEPT !.cwaiters =
        [i \in DOMAIN @ |->
            IF @[i].t = t /\ @[i].state = PENDING
            THEN [@[i] EXCEPT !.state = CANCELLED, !.timed_out = TRUE]
            ELSE @[i]]]

(***************************************************************************)
(* Semaphore, from section 4.9 of the specification and the tests of       *)
(* tests/locks_test.py: an integer counter and a FIFO of waiter Futures.   *)
(***************************************************************************)
NewSemaphore(value, users) ==
    [kind |-> "semaphore", value |-> value, initial |-> value,
     waiters |-> <<>>, cwaiters |-> <<>>,
     pc |-> [t \in users |-> "idle"],
     must_cancel |-> [t \in users |-> FALSE],
     holders |-> {}]

\* The end of acquire(): "self._value -= 1; return True".
Semaphore_enter(s, t) ==
    [s EXCEPT !.value = @ - 1, !.holders = @ \cup {t}, !.pc[t] = "held"]

\* acquire() that looks at the counter only, and overtakes the waiters.
Semaphore_acquire_Overtakes(s, t) ==
    IF s.value > 0
    THEN Semaphore_enter(s, t)
    ELSE [s EXCEPT !.waiters = Append(@, Waiter(t, FALSE)),
                   !.pc[t] = "acquire"]

\* Semaphore.acquire(): decrements when the counter is positive and nobody
\* waits (test_acquire: the fourth task stays parked although two
\* release() calls made the counter 2), else parks.
Semaphore_acquire(s, t) ==
    IF s.waiters = <<>> /\ s.value > 0
    THEN Semaphore_enter(s, t)
    ELSE [s EXCEPT !.waiters = Append(@, Waiter(t, FALSE)),
                   !.pc[t] = "acquire"]

\* The task parked in acquire() runs again: a cancelled one raises
\* CancelledError and leaves no waiter (test_acquire_cancel), a resolved
\* one decrements the counter that release() incremented.
Semaphore_wakeup(s, t) ==
    LET s1 == [s EXCEPT !.waiters = Without(@, t)]
    IN  IF s.must_cancel[t] \/ WaiterIn(s.waiters, t).state = CANCELLED
        THEN [s1 EXCEPT !.pc[t] = "cancelled"]
        ELSE Semaphore_enter(s1, t)

\* Semaphore.release(): increments the counter and resolves one waiter
\* (test_acquire: the counter is 2 right after two release() calls).
Semaphore_release(s, t) ==
    [s EXCEPT !.value = @ + 1,
              !.waiters = WakeFirst(@, 1),
              !.holders = @ \ {t},
              !.pc[t] = "done"]

(***************************************************************************)
(* Queue, as section 4.9 of the specification describes it (FIFO with      *)
(* optional maxsize; put and get park on the opposite side when needed;    *)
(* put_nowait and get_nowait fail with Full and Empty) and as              *)
(* tests/test_queues.py pins it down: a parked putter is queued with its   *)
(* item (test_get_with_putters), a get moves the item of the first putter  *)
(* into the queue (test_put_cancelled_race), a put hands its item to the   *)
(* first getter, and waiters that are done are dropped from the head of    *)
(* their queue (test_get_cancelled_race).                                  *)
(*                                                                         *)
(* Items are numbered from 1 (next is the last number used); fut[t] is the waiter Future task t is parked *)
(* on, its result the item handed to a getter (0: none).  puts, taken, got *)
(* and raised are history: the items accepted by the queue in order, the   *)
(* items that left it in order, the items returned by get() and            *)
(* get_nowait(), and the exception raised by the last step, if any.        *)
(***************************************************************************)
Full == "Full"
Empty == "Empty"

NewQueue(maxsize, users) ==
    [kind |-> "queue", maxsize |-> maxsize, queue |-> <<>>,
     getters |-> <<>>, putters |-> <<>>,
     fut |-> [t \in users |-> [state |-> PENDING, result |-> 0]],
     pc |-> [t \in users |-> "idle"],
     must_cancel |-> [t \in users |-> FALSE],
     next |-> 0, puts |-> <<>>, taken |-> <<>>, got |-> {}, raised |-> None]

\* _consume_done_getters, _consume_done_putters: waiters that are done
\* (cancelled) are dropped from the head of the queue of waiters.
RECURSIVE consume_done(_, _)
consume_done(q, fut) ==
    IF q # <<>> /\ fut[Head(q).t].state # PENDING
    THEN consume_done(Tail(q), fut)
    ELSE q

\* put() and put_nowait() that take the queue for full one item too late.
Queue_put_OneTooMany(s, t, item, nowait) ==
    LET g == consume_done(s.getters, s.fut)
        s1 == [s EXCEPT !.getters = g, !.raised = None]
        q1 == Append(s.queue, item)
    IN  IF g # <<>>
        THEN [s1 EXCEPT !.getters = Tail(g),
                        !.fut[Head(g).t] =
                            [state |-> FINISHED, result |-> Head(q1)],
                        !.queue = Tail(q1),
                        !.puts = Append(@, item),
                        !.taken = Append(@, Head(q1)),
                        !.pc[t] = "done"]
        ELSE IF s.maxsize > 0 /\ s.maxsize < Len(s.queue)
        THEN IF nowait
             THEN [s1 EXCEPT !.raised = Full]
             ELSE [s1 EXCEPT !.putters = Append(@, [t |-> t, item |-> item]),
                             !.fut[t] = [state |-> PENDING, result |-> 0],
                             !.pc[t] = "put"]
        ELSE [s1 EXCEPT !.queue = q1,
                        !.puts = Append(@, item),
                        !.pc[t] = "done"]

\* put(item) and put_nowait(item) by task t: the item goes to the first
\* getter that is still waiting; else, when the queue is full, put parks
\* with its item and put_nowait raises Full; else the item is appended.
Queue_put(s, t, item, nowait) ==
    LET g == consume_done(s.getters, s.fut)
        s1 == [s EXCEPT !.getters = g, !.raised = None]
        q1 == Append(s.queue, item)
    IN  IF g # <<>>
        THEN [s1 EXCEPT !.getters = Tail(g),
                        !.fut[Head(g).t] =
                            [state |-> FINISHED, result |-> Head(q1)],
                        !.queue = Tail(q1),
                        !.puts = Append(@, item),
                        !.taken = Append(@, Head(q1)),
                        !.pc[t] = "done"]
        ELSE IF s.maxsize > 0 /\ s.maxsize <= Len(s.queue)
        THEN IF nowait
             THEN [s1 EXCEPT !.raised = Full]
             ELSE [s1 EXCEPT !.putters = Append(@, [t |-> t, item |-> item]),
                             !.fut[t] = [state |-> PENDING, result |-> 0],
                             !.pc[t] = "put"]
        ELSE [s1 EXCEPT !.queue = q1,
                        !.puts = Append(@, item),
                        !.pc[t] = "done"]

\* get() and get_nowait() by task t: the item of the first putter that is
\* still waiting enters the queue and the putter is resolved; the head of
\* the queue is returned; on an empty queue get parks and get_nowait raises
\* Empty.
Queue_get(s, t, nowait) ==
    LET p == consume_done(s.putters, s.fut)
        s1 == [s EXCEPT !.putters = p, !.raised = None]
    IN  IF p # <<>>
        THEN LET q1 == Append(s.queue, Head(p).item)
             IN  [s1 EXCEPT !.putters = Tail(p),
                            !.fut[Head(p).t] =
                                [state |-> FINISHED, result |-> 0],
                            !.queue = Tail(q1),
                            !.puts = Append(@, Head(p).item),
                            !.taken = Append(@, Head(q1)),
                            !.got = @ \cup {Head(q1)},
                            !.pc[t] = "done"]
        ELSE IF s.queue # <<>>
        THEN [s1 EXCEPT !.queue = Tail(@),
                        !.taken = Append(@, Head(s.queue)),
                        !.got = @ \cup {Head(s.queue)},
                        !.pc[t] = "done"]
        ELSE IF nowait
        THEN [s1 EXCEPT !.raised = Empty]
        ELSE [s1 EXCEPT !.getters = Append(@, [t |-> t, item |-> 0]),
                        !.fut[t] = [state |-> PENDING, result |-> 0],
                        !.pc[t] = "get"]

\* The task parked in get() or put() runs again: Task._step throws
\* CancelledError into it when must_cancel is set, Task._wakeup when the
\* waiter was cancelled; else get() returns the result of its waiter.
Queue_wakeup(s, t) ==
    IF s.must_cancel[t] \/ s.fut[t].state = CANCELLED
    THEN [s EXCEPT !.pc[t] = "cancelled", !.raised = None]
    ELSE [s EXCEPT !.pc[t] = "done", !.raised = None,
                   !.got = IF s.pc[t] = "get" THEN @ \cup {s.fut[t].result}
                           ELSE @]

\* Task.cancel() of the task parked on its waiter fut[t]: the waiter is
\* cancelled; when it is already done, must_cancel is set.
cancel_parked(s, t) ==
    IF s.fut[t].state = PENDING
    THEN [s EXCEPT !.fut[t].state = CANCELLED, !.raised = None]
    ELSE [s EXCEPT !.must_cancel[t] = TRUE, !.raised = None]

(***************************************************************************)
(* Specification of the StreamReader: a producer feeds chunks, EOF or an   *)
(* exception; one task reads, and may be cancelled while suspended.        *)
(***************************************************************************)
SRIdle ==
    /\ sr = StreamReader(SRLimit)
    /\ wfut = NoFuture
    /\ rd = IdleReader
    /\ fed = [data |-> 0, reads |-> 0, exc |-> None]

SRInit ==
    /\ FutInit
    /\ SRIdle
    /\ tr = NoTransport /\ loop = NoLoop /\ ps = NoParsers /\ sy = NoSync

SRFeedData ==
    \E data \in Chunks :
        /\ fed.data < MaxFeeds
        /\ LET r == feed_data(SRState, data)
           IN  /\ SRCommit(r.w)
               /\ fed' = [fed EXCEPT !.data = @ + 1, !.exc = r.exc]

SRFeedEof ==
    /\ ~sr.eof
    /\ LET r == feed_eof(SRState)
       IN  /\ SRCommit(r.w)
           /\ fed' = [fed EXCEPT !.exc = r.exc]

SRSetException ==
    /\ sr.exception = None
    /\ LET r == StreamReader_set_exception(SRState, "Err")
       IN  /\ SRCommit(r.w)
           /\ fed' = [fed EXCEPT !.exc = r.exc]

SRStart(op, n) ==
    /\ rd.status \in {"idle", "done"}
    /\ fed.reads < MaxReads
    /\ fed' = [fed EXCEPT !.reads = @ + 1]
    /\ LET x == [SRState EXCEPT !.rd = [IdleReader EXCEPT !.op = op, !.n = n,
                                                         !.status = "running"]]
       IN  SRCommit(CASE op = "readline" -> readline(x)
                      [] op = "read" -> read(x)
                      [] op = "readexactly" -> readexactly(x))

SRReadline == SRStart("readline", 0)

SRRead == \E n \in -1..MaxN : SRStart("read", n)

SRReadexactly == \E n \in 0..MaxN : SRStart("readexactly", n)

\* The loop dispatches the reading task's wakeup.
SRResume ==
    /\ rd.status = "suspended"
    /\ wfut.state # PENDING
    /\ SRCommit(SRStep(SRState))
    /\ UNCHANGED fed

SRCancel ==
    /\ rd.status = "suspended"
    /\ ~rd.must_cancel
    /\ wfut.state # CANCELLED
    /\ SRCommit(SRTask_cancel(SRState))
    /\ UNCHANGED fed

SRNext ==
    \/ SRFeedData
    \/ SRFeedEof
    \/ SRSetException
    \/ SRReadline
    \/ SRRead
    \/ SRReadexactly
    \/ SRResume
    \/ SRCancel

SpecSR == SRInit /\ [][SRNext]_vars

FutOnlyInit == FutInit /\ SRIdle /\ tr = NoTransport /\ loop = NoLoop /\ ps = NoParsers /\ sy = NoSync

SpecFut == FutOnlyInit /\ [][FutNext]_vars

(***************************************************************************)
(* Specification of Tasks: a child task T1 awaits the Future F1; an outer  *)
(* task T2 runs one of the programs below; user code completes and cancels *)
(* the Futures and the Tasks while the loop dispatches the handles.        *)
(***************************************************************************)
TaskIds == {"T1", "T2"}
PlainFuts == {"F1", "F2"}

ChildProgram == <<Await("F1")>>

OuterPrograms ==
    {<<WaitFor(f, TRUE)>> : f \in {"T1", "F2"}}
    \cup {<<Wait(<<"T1", "F2">>, to, rw)>> :
              to \in BOOLEAN,
              rw \in {FIRST_COMPLETED, FIRST_EXCEPTION, ALL_COMPLETED}}
    \cup {<<CancelSelf, Await("F2")>>,
          <<CancelSelf, Yield>>,
          <<Yield, Await("T1")>>,
          <<YieldFuture("F2")>>,
          <<AwaitCatch("F2"), Await("T1")>>,
          <<AsCompleted(<<"T1", "F2">>)>>}

\* The orders in which a set of T1 and F2 may iterate.
SetOrders == {<<"T1", "F2">>, <<"F2", "T1">>}

\* The result user code gives each Future.
ResultOf(f) == IF f = "F1" THEN "a" ELSE "b"

\* Task.__init__ schedules the first _step.  The children of an as_completed
\* carry a done-callback of the user, which records their completion.
TaskInit ==
    /\ \E p \in OuterPrograms :
       \E o \in (IF p[1].op = "as_completed" THEN SetOrders ELSE {<<>>}) :
           /\ tasks = [t \in TaskIds |->
                        IF t = "T1"
                        THEN NewTask(ChildProgram)
                        ELSE [NewTask(p) EXCEPT !.order = o]]
           /\ futs = [x \in PlainFuts \cup TaskIds \cup {WaiterOf("T2")} |->
                        IF p[1].op = "as_completed" /\ x \in Range(p[1].fs)
                        THEN [NewFuture(None) EXCEPT
                                  !.callbacks = <<Callback("user", "completed")>>]
                        ELSE NewFuture(None)]
    /\ ready = <<Handle(Callback("_step", "T1"), None, "-"),
                 Handle(Callback("_step", "T2"), None, "-")>>
    /\ timers = {}
    /\ hcancelled = {}
    /\ ran = <<>>
    /\ last = NoCall
    /\ SRIdle
    /\ tr = NoTransport /\ loop = NoLoop /\ ps = NoParsers /\ sy = NoSync

TaskSetResult ==
    \E f \in PlainFuts :
        /\ Commit(set_result(World, f, ResultOf(f)).w)
        /\ UNCHANGED last

TaskSetException ==
    \E f \in PlainFuts :
        /\ Commit(set_exception(World, f, "Err").w)
        /\ UNCHANGED last

TaskCancel ==
    \E x \in PlainFuts \cup TaskIds :
        /\ Commit(cancel(World, x).w)
        /\ UNCHANGED last

TaskNext ==
    \/ TaskSetResult
    \/ TaskSetException
    \/ TaskCancel
    \/ TimerDue
    \/ RunOnce

SpecTask == TaskInit /\ [][TaskNext]_vars

(***************************************************************************)
(* Specification of the transports: one transport of one of the three      *)
(* kinds; the protocol's code writes, pauses, resumes, closes and aborts    *)
(* once it has the transport (connection_made); the selector reports the    *)
(* fd readable or writable; the loop dispatches the handles.  A socket      *)
(* call blocks or sends partially at most MaxStalls times.                  *)
(***************************************************************************)
TrCommit(w) ==
    /\ w.stalls <= MaxStalls
    /\ w.received <= MaxRecvs
    /\ tr' = w
    /\ UNCHANGED notTrVars

Socket_init ==
    tr_call_soon(
        tr_call_soon(add_reader(NewTransport("socket", FALSE), "_read_ready"),
                     "connection_made", None),
        "waiter.set_result", None)

Ssl_init(hs) == _on_handshake(NewTransport("ssl", FALSE), [NoEnv EXCEPT !.hs = hs])

Datagram_init(address) ==
    tr_call_soon(add_reader(NewTransport("datagram", address), "_read_ready"),
                 "connection_made", None)

TrInit ==
    /\ FutInit
    /\ SRIdle
    /\ tr \in {Socket_init}
              \cup {Ssl_init(hs) : hs \in HandshakeOutcomes}
              \cup {Datagram_init(a) : a \in BOOLEAN}
    /\ loop = NoLoop /\ ps = NoParsers /\ sy = NoSync

\* The next bytes the protocol writes: they are numbered in the order written.
NextData(n) == [i \in 1..n |-> tr.written + i]

TrWrite ==
    /\ tr.made /\ tr.kind \in {"socket", "ssl"}
    /\ tr.writes < MaxWrites
    /\ \E n \in 1..2, s \in SendOutcomes :
           TrCommit(IF tr.kind = "ssl"
                    THEN Ssl_write(tr, NextData(n))
                    ELSE Socket_write(tr, NextData(n), [NoEnv EXCEPT !.send = s]))

TrSendto ==
    /\ tr.made /\ tr.kind = "datagram"
    /\ tr.writes < MaxWrites
    /\ \E o \in DatagramOutcomes :
           TrCommit(sendto(tr, NextData(1), [NoEnv EXCEPT !.sends = <<o>>]))

TrPause ==
    /\ tr.made /\ tr.kind = "socket"
    /\ tr.pauses < MaxPauses
    /\ TrCommit(pause_writing(tr))

TrResume ==
    /\ tr.made /\ tr.kind = "socket"
    /\ ~tr.writing
    /\ TrCommit(resume_writing(tr))

TrClose ==
    /\ tr.made
    /\ TrCommit(close(tr))

TrAbort ==
    /\ tr.made
    /\ tr.aborts < MaxAborts
    /\ TrCommit(abort(tr))

TrReadable ==
    /\ tr.reader # None /\ ~tr.dead
    /\ \A i \in DOMAIN tr.ready : tr.ready[i].io = "r" => tr.ready[i].cancelled
    /\ TrCommit(_process_events(tr, "r"))

TrWritable ==
    /\ tr.writer # None /\ ~tr.dead
    /\ \A i \in DOMAIN tr.ready : tr.ready[i].io = "w" => tr.ready[i].cancelled
    /\ TrCommit(_process_events(tr, "w"))

TrRunOnce ==
    /\ tr.ready # <<>>
    /\ \E env \in EnvFor(tr, Head(tr.ready).fn) : TrCommit(tr_run_once(tr, env))

TrNext ==
    \/ TrWrite
    \/ TrSendto
    \/ TrPause
    \/ TrResume
    \/ TrClose
    \/ TrAbort
    \/ TrReadable
    \/ TrWritable
    \/ TrRunOnce

SpecTr == TrInit /\ [][TrNext]_vars

\* The loop keeps running, the socket becomes writable again and again, and
\* a protocol that paused the writing resumes it.
SpecTrLive ==
    /\ TrInit
    /\ [][TrNext]_vars
    /\ WF_vars(TrRunOnce)
    /\ WF_vars(TrWritable)
    /\ WF_vars(TrResume)

(***************************************************************************)
(* Specification of a transport in the hands of the code that made it:     *)
(* until connection_made has handed the transport to the protocol, only    *)
(* its creator can call close() or abort() on it, and it may do so at      *)
(* once; the selector reports the fd ready and the loop dispatches the     *)
(* handles as before.                                                      *)
(***************************************************************************)
TrCreatorClose ==
    /\ ~tr.made /\ ~tr.closing
    /\ TrCommit(close(tr))

TrCreatorAbort ==
    /\ ~tr.made
    /\ tr.aborts < MaxAborts
    /\ TrCommit(abort(tr))

TrCreatorNext ==
    \/ TrCreatorClose
    \/ TrCreatorAbort
    \/ TrReadable
    \/ TrWritable
    \/ TrRunOnce

SpecTrCreator == TrInit /\ [][TrCreatorNext]_vars

(***************************************************************************)
(* The subprocess transport.  Its pipes are connected one after another    *)
(* by the coroutine _post_init; until all of them are connected the calls  *)
(* for the protocol are kept in _pending_calls.  A pipe is None, "made"    *)
(* (its protocol object exists), "connected" or "disconnected".  The       *)
(* record holds the transport's fields, the loop's ready queue and the     *)
(* log of the callbacks the protocol got.                                  *)
(***************************************************************************)
STDIN == 0
STDOUT == 1

NewSubprocess(fds) ==
    [kind |-> "subprocess",
     pipes |-> [fd \in fds |-> None],
     pending_calls |-> <<>>,
     pending |-> TRUE,          \* _pending_calls is not None
     finished |-> FALSE,
     returncode |-> None,
     todo |-> IF fds = {} THEN <<>>
              ELSE IF fds = {STDOUT} THEN <<STDOUT>> ELSE <<STDIN, STDOUT>>,
     closing |-> {},            \* pipes whose transport has seen the end
     ready |-> <<>>,
     log |-> <<>>,
     dead |-> FALSE,
     datas |-> 0,
     failed |-> None]

ProcHandle(fn, fd) == [fn |-> fn, fd |-> fd]

proc_call_soon(w, fn, fd) == [w EXCEPT !.ready = Append(@, ProcHandle(fn, fd))]

_call(w, cb, fd) ==
    IF w.pending
    THEN [w EXCEPT !.pending_calls = Append(@, ProcHandle(cb, fd))]
    ELSE proc_call_soon(w, cb, fd)

PipeConnected(w, fd) == w.pipes[fd] \in {"connected", "disconnected"}

_try_connected(w) ==
    IF ~w.pending
    THEN [w EXCEPT !.failed = "AssertionError"]
    ELSE IF \A fd \in DOMAIN w.pipes : PipeConnected(w, fd)
         THEN [w EXCEPT !.ready = Append(@, ProcHandle("connection_made", None))
                                      \o w.pending_calls,
                        !.pending_calls = <<>>,
                        !.pending = FALSE]
         ELSE w

_try_finish(w) ==
    IF w.finished
    THEN [w EXCEPT !.failed = "AssertionError"]
    ELSE IF w.returncode = None
         THEN w
         ELSE IF \A fd \in DOMAIN w.pipes : w.pipes[fd] = "disconnected"
              THEN proc_call_soon([w EXCEPT !.finished = TRUE],
                                  "_call_connection_lost", None)
              ELSE w

_pipe_connection_lost(w, fd) == _try_finish(_call(w, "pipe_connection_lost", fd))

_pipe_data_received(w, fd) == _call(w, "pipe_data_received", fd)

_process_exited(w) ==
    IF w.returncode # None
    THEN [w EXCEPT !.failed = "AssertionError"]
    ELSE _try_finish(_call([w EXCEPT !.returncode = "returncode"],
                           "process_exited", None))

Subprocess_call_connection_lost(w) ==
    [w EXCEPT !.log = Append(@, "connection_lost"), !.dead = TRUE]

PipeProto_connection_made(w, fd) ==
    _try_connected([w EXCEPT !.pipes[fd] = "connected"])

PipeProto_connection_lost(w, fd) ==
    _pipe_connection_lost([w EXCEPT !.pipes[fd] = "disconnected"], fd)

\* loop.connect_read_pipe / connect_write_pipe: the protocol factory runs
\* (the pipe's protocol enters _pipes), the pipe transport's constructor
\* queues the protocol's connection_made and resolves the waiter the
\* coroutine is suspended on.
connect_pipe(w, fd) ==
    proc_call_soon(
        proc_call_soon([w EXCEPT !.pipes[fd] = "made"],
                       "PipeProto.connection_made", fd),
        "_post_init", fd)

\* _post_init, from where it is up to its next suspension.
_post_init(w) ==
    IF w.todo # <<>>
    THEN connect_pipe([w EXCEPT !.todo = Tail(@)], Head(w.todo))
    ELSE IF DOMAIN w.pipes = {} THEN _try_connected(w) ELSE w

ProcRunCallback(w, hd) ==
    CASE hd.fn = "PipeProto.connection_made" -> PipeProto_connection_made(w, hd.fd)
      [] hd.fn = "PipeProto.connection_lost" -> PipeProto_connection_lost(w, hd.fd)
      [] hd.fn = "PipeProto.data_received" -> _pipe_data_received(w, hd.fd)
      [] hd.fn = "_post_init" -> _post_init(w)
      [] hd.fn = "_process_exited" -> _process_exited(w)
      [] hd.fn = "_call_connection_lost" -> Subprocess_call_connection_lost(w)
      [] OTHER -> [w EXCEPT !.log = Append(@, hd.fn)]

\* The constructor, followed by _post_init up to its first suspension.
Subprocess_init(fds) == _post_init(NewSubprocess(fds))

(***************************************************************************)
(* Specification of the subprocess transport: the process exits at any     *)
(* time after the transport was made, a pipe delivers data and ends once   *)
(* its transport exists, and the loop dispatches the handles in order.     *)
(***************************************************************************)
PipeSets == {{}, {STDOUT}, {STDIN, STDOUT}}

ProcCommit(w) ==
    /\ w.datas <= MaxPipeData
    /\ tr' = w
    /\ UNCHANGED notTrVars

ProcInit ==
    /\ FutInit
    /\ SRIdle
    /\ tr \in {Subprocess_init(fds) : fds \in PipeSets}
    /\ loop = NoLoop /\ ps = NoParsers /\ sy = NoSync

ProcExit ==
    /\ tr.returncode = None
    /\ \A i \in DOMAIN tr.ready : tr.ready[i].fn # "_process_exited"
    /\ ProcCommit(proc_call_soon(tr, "_process_exited", None))

ProcPipeData ==
    \E fd \in DOMAIN tr.pipes :
        /\ fd = STDOUT
        /\ tr.pipes[fd] \in {"made", "connected"} /\ fd \notin tr.closing
        /\ ProcCommit(proc_call_soon([tr EXCEPT !.datas = @ + 1],
                                     "PipeProto.data_received", fd))

ProcPipeEnd ==
    \E fd \in DOMAIN tr.pipes :
        /\ tr.pipes[fd] \in {"made", "connected"} /\ fd \notin tr.closing
        /\ ProcCommit(proc_call_soon([tr EXCEPT !.closing = @ \cup {fd}],
                                     "PipeProto.connection_lost", fd))

ProcRunOnce ==
    /\ tr.ready # <<>>
    /\ ProcCommit(ProcRunCallback([tr EXCEPT !.ready = Tail(@)], Head(tr.ready)))

ProcNext ==
    \/ ProcExit
    \/ ProcPipeData
    \/ ProcPipeEnd
    \/ ProcRunOnce

SpecProc == ProcInit /\ [][ProcNext]_vars

(***************************************************************************)
(* Specification of the event loop core: user code calls call_soon and     *)
(* call_later and cancels handles between the iterations, the clock        *)
(* advances, and the loop runs one iteration at a time.                    *)
(***************************************************************************)
LoopCommit(l) ==
    /\ l.handles <= MaxHandles
    /\ loop' = l

\* What a callback scheduled by user code does when it runs.
Does == {"pass", "call_soon", "call_later"}

Delays == {0, 1}

\* The handles that wait in the ready queue or in the timer heap.
Waiting(l) ==
    {l.ready[i].id : i \in 1..Len(l.ready)}
        \cup {l.scheduled[i].id : i \in 1..Len(l.scheduled)}

LoopInit ==
    /\ FutInit
    /\ SRIdle
    /\ tr = NoTransport
    /\ loop = NewLoop
    /\ ps = NoParsers /\ sy = NoSync

LoopCallSoon ==
    \E does \in Does :
        /\ LoopCommit(Loop_call_soon(loop, does, FALSE))
        /\ UNCHANGED notLoopVars

LoopCallLater ==
    \E delay \in Delays :
        /\ LoopCommit(Loop_call_later(loop, delay, "pass", FALSE))
        /\ UNCHANGED notLoopVars

LoopCancel ==
    \E id \in Waiting(loop) :
        /\ id \notin loop.cancelled
        /\ LoopCommit(LoopHandle_cancel(loop, id))
        /\ UNCHANGED notLoopVars

LoopTick ==
    /\ loop.time < MaxTime
    /\ LoopCommit([loop EXCEPT !.time = @ + 1])
    /\ UNCHANGED notLoopVars

LoopRunOnce ==
    /\ loop.iteration < MaxIterations
    /\ LoopCommit(Loop_run_once(loop))
    /\ UNCHANGED notLoopVars

LoopNext ==
    \/ LoopCallSoon
    \/ LoopCallLater
    \/ LoopCancel
    \/ LoopTick
    \/ LoopRunOnce

SpecLoop == LoopInit /\ [][LoopNext]_vars

(***************************************************************************)
(* Specification of the selector loop: user code schedules callbacks that  *)
(* may raise or remove the reader, registers and removes the reader and    *)
(* the writer of a file descriptor, and cancels handles; each iteration    *)
(* the selector reports some of the registered events.                     *)
(***************************************************************************)
SelDoes == {"pass", "raise", "raise_base", "remove_reader"}

\* The events select can report: those the file descriptor is registered for.
Registered(l) == IF l.registered THEN l.mask ELSE {}

\* The handles that wait to be dispatched.
Pending(l) ==
    Waiting(l) \cup ({l.reader.id, l.writer.id} \ {0})

SelCallSoon ==
    \E does \in SelDoes :
        /\ loop.killed = None
        /\ LoopCommit(Loop_call_soon(loop, does, FALSE))
        /\ UNCHANGED notLoopVars

SelCallLater ==
    /\ loop.killed = None
    /\ LoopCommit(Loop_call_later(loop, 0, "pass", FALSE))
    /\ UNCHANGED notLoopVars

SelAddReader ==
    /\ loop.killed = None
    /\ LoopCommit(Loop_add_reader(loop, "pass"))
    /\ UNCHANGED notLoopVars

SelRemoveReader ==
    /\ loop.killed = None
    /\ loop.reader # NoHandle
    /\ LoopCommit(Loop_remove_reader(loop))
    /\ UNCHANGED notLoopVars

SelAddWriter ==
    /\ loop.killed = None
    /\ LoopCommit(Loop_add_writer(loop, "raise"))
    /\ UNCHANGED notLoopVars

SelRemoveWriter ==
    /\ loop.killed = None
    /\ loop.writer # NoHandle
    /\ LoopCommit(Loop_remove_writer(loop))
    /\ UNCHANGED notLoopVars

\* handle.cancel() by whoever holds the handle.
SelCancel ==
    \E id \in Pending(loop) :
        /\ loop.killed = None
        /\ id \notin loop.cancelled
        /\ LoopCommit(LoopHandle_cancel(loop, id))
        /\ UNCHANGED notLoopVars

\* run_forever runs the iterations until an exception leaves one.
SelRunOnce ==
    \E mask \in SUBSET Registered(loop) :
        /\ loop.killed = None
        /\ loop.iteration < MaxSelIterations
        /\ LoopCommit(Loop_run_once_select(loop, mask))
        /\ UNCHANGED notLoopVars

SelNext ==
    \/ SelCallSoon
    \/ SelCallLater
    \/ SelAddReader
    \/ SelRemoveReader
    \/ SelAddWriter
    \/ SelRemoveWriter
    \/ SelCancel
    \/ SelRunOnce

SpecSel == LoopInit /\ [][SelNext]_vars

(***************************************************************************)
(* Specification of the registrations of one file descriptor: user code    *)
(* adds and removes its reader and its writer in any order, and cancels    *)
(* the handles it was given.                                               *)
(***************************************************************************)
FdCommit(l) ==
    /\ l.handles <= MaxRegistrations
    /\ loop' = l
    /\ UNCHANGED notLoopVars

FdAddReader ==
    /\ FdCommit(Loop_add_reader(loop, "pass"))
    /\ loop'.reader.id = loop'.handles

FdRemoveReader ==
    /\ FdCommit(Loop_remove_reader(loop))
    /\ loop'.reader = NoHandle

FdAddWriter ==
    /\ FdCommit(Loop_add_writer(loop, "pass"))
    /\ loop'.handles = loop.handles + 1

FdRemoveWriter ==
    /\ FdCommit(Loop_remove_writer(loop))
    /\ loop'.handles = loop.handles

FdCancel ==
    \E id \in 1..loop.handles :
        /\ FdCommit(LoopHandle_cancel(loop, id))
        /\ loop'.handles = loop.handles

FdNext ==
    \/ FdAddReader
    \/ FdRemoveReader
    \/ FdAddWriter
    \/ FdRemoveWriter
    \/ FdCancel

SpecFd == LoopInit /\ [][FdNext]_vars

(***************************************************************************)
(* Specification of the parsers: some bytes S are fed to a StreamBuffer    *)
(* with a parser in one chunk and to another one in chunks (some of them   *)
(* empty), and each is fed EOF after its last byte.                        *)
(***************************************************************************)
ParserChoices ==
    {lines_parser(limit) : limit \in {ParserLimit, ParserLimit + 1}}
        \cup {chunks_parser(ChunkSize)}
        \cup {head_parser(limit) : limit \in {ParserLimit, ParserLimit + 1}}

ByteSeqs == UNION {[1..k -> Bytes] : k \in 0..MaxBytes}

RECURSIVE Sum(_)
Sum(lengths) == IF lengths = <<>> THEN 0 ELSE Head(lengths) + Sum(Tail(lengths))

PsInit ==
    /\ FutInit
    /\ SRIdle
    /\ tr = NoTransport
    /\ loop = NoLoop
    /\ sy = NoSync
    /\ ps \in {Parsers(p, S) : p \in ParserChoices, S \in ByteSeqs}

PsFeedWhole ==
    /\ ~ps.whole_fed
    /\ ps' = [ps EXCEPT !.whole = StreamBuffer_feed_data(@, ps.S),
                        !.whole_fed = TRUE]
    /\ UNCHANGED notPsVars

PsEofWhole ==
    /\ ps.whole_fed /\ ~ps.whole.eof
    /\ ps' = [ps EXCEPT !.whole = StreamBuffer_feed_eof(@)]
    /\ UNCHANGED notPsVars

PsFeedChunk ==
    \E k \in 0..(Len(ps.S) - Sum(ps.cuts)) :
        /\ ~ps.split.eof
        /\ k = 0 => Cardinality({i \in DOMAIN ps.cuts : ps.cuts[i] = 0}) < MaxEmpty
        /\ ps' = [ps EXCEPT
                     !.split = StreamBuffer_feed_data(
                                   @, SubSeq(ps.S, Sum(ps.cuts) + 1,
                                             Sum(ps.cuts) + k)),
                     !.cuts = Append(@, k)]
        /\ UNCHANGED notPsVars

PsEofSplit ==
    /\ Sum(ps.cuts) = Len(ps.S) /\ ~ps.split.eof
    /\ ps' = [ps EXCEPT !.split = StreamBuffer_feed_eof(@)]
    /\ UNCHANGED notPsVars

PsNext ==
    \/ PsFeedWhole
    \/ PsEofWhole
    \/ PsFeedChunk
    \/ PsEofSplit

SpecParser == PsInit /\ [][PsNext]_vars

(***************************************************************************)
(* Specification of a ParserBuffer used directly: a parser starts one      *)
(* primitive at a time and sends it the chunks it receives while the       *)
(* primitive waits; between two primitives chunks are fed with feed_data   *)
(* and the buffer may be shrunk.                                           *)
(***************************************************************************)
BufOps ==
    {BufOp(fn, n) : fn \in {"read", "skip"}, n \in 1..2}
        \cup {BufOp("readsome", n) : n \in {NoSize, 1, 2}}
        \cup {BufOp("readuntil", ParserLimit), BufOp("skipuntil", 0)}

BufChunks == Chunks \cup {<<>>}

BufInit ==
    /\ FutInit
    /\ SRIdle
    /\ tr = NoTransport
    /\ loop = NoLoop
    /\ sy = NoSync
    /\ ps = BufferUse

\* p = buf.read(n) and the like; next(p)
BufStart ==
    \E op \in BufOps :
        /\ ps.op = NoOp
        /\ ps.ops < MaxBufOps
        /\ ps' = BufRun([ps EXCEPT !.ops = @ + 1,
                                   !.started = @ \cup {op.fn}], ps.buf, op)
        /\ UNCHANGED notPsVars

\* p.send(chunk): self._writer.send((yield)), then the loop again
BufSend ==
    \E chunk \in BufChunks :
        /\ ps.op # NoOp
        /\ ps.fed + Len(chunk) <= MaxBytes
        /\ ps' = BufRun([ps EXCEPT !.fed = @ + Len(chunk)],
                        ParserBuffer_feed_data(ps.buf, chunk), ps.op)
        /\ UNCHANGED notPsVars

\* buf.feed_data(chunk)
BufFeed ==
    \E chunk \in BufChunks :
        /\ ps.op = NoOp
        /\ ps.fed + Len(chunk) <= MaxBytes
        /\ ps' = [ps EXCEPT !.buf = ParserBuffer_feed_data(@, chunk),
                            !.fed = @ + Len(chunk),
                            !.last = "feed_data", !.exc = None]
        /\ UNCHANGED notPsVars

\* buf._shrink()
BufShrink ==
    /\ ps.op = NoOp
    /\ ps.last # "_shrink"
    /\ ps' = [ps EXCEPT !.buf = _shrink(@), !.last = "_shrink", !.exc = None]
    /\ UNCHANGED notPsVars

BufNext ==
    \/ BufStart
    \/ BufSend
    \/ BufFeed
    \/ BufShrink

SpecBuf == BufInit /\ [][BufNext]_vars

(***************************************************************************)
(* Specification of a DataBuffer with its reader: a parser feeds items and *)
(* EOF, an exception may be set, and one task at a time runs read(); the   *)
(* task may be cancelled while it is suspended.                            *)
(***************************************************************************)
DataInit ==
    /\ FutInit
    /\ SRIdle
    /\ tr = NoTransport
    /\ loop = NoLoop
    /\ sy = NoSync
    /\ ps = DataReader

DataFeed ==
    /\ ps.fed < MaxDataItems
    /\ ~ps.out.eof
    /\ ps' = Data_feed_data([ps EXCEPT !.fed = @ + 1], ps.fed + 1)
    /\ UNCHANGED notPsVars

DataEof ==
    /\ ~ps.out.eof
    /\ ps' = Data_feed_eof(ps)
    /\ UNCHANGED notPsVars

DataSetException ==
    /\ ps.out.exception = None
    /\ ps' = Data_set_exception(ps, "Err")
    /\ UNCHANGED notPsVars

\* A new task runs read() up to its first suspension.
DataRead ==
    /\ ps.rd.status \in {"idle", "done"}
    /\ ps.reads < MaxReads
    /\ ps' = Data_read([ps EXCEPT !.reads = @ + 1,
                                  !.rd.must_cancel = FALSE,
                                  !.rd.ret = NoItem, !.rd.exc = None])
    /\ UNCHANGED notPsVars

\* The loop runs the step that the waiter's callback or the cancellation
\* has scheduled.
DataStep ==
    /\ ps.rd.status = "suspended"
    /\ ps.wfut.state # PENDING
    /\ ps' = Data_step(ps)
    /\ UNCHANGED notPsVars

DataCancel ==
    /\ ps.rd.status = "suspended"
    /\ ps.cancels = 0 \/ ps.wfut.state = PENDING
    /\ ~ps.rd.must_cancel
    /\ ps' = Data_cancel(ps)
    /\ UNCHANGED notPsVars

DataNext ==
    \/ DataFeed
    \/ DataEof
    \/ DataSetException
    \/ DataRead
    \/ DataStep
    \/ DataCancel

SpecData == DataInit /\ [][DataNext]_vars

(***************************************************************************)
(* Specification of a Lock shared by NumSyTasks tasks: they acquire and    *)
(* release it, and may be cancelled while they wait for it.                *)
(***************************************************************************)
Suspended(s, t) ==
    \/ s.pc[t] = "acquire"
    \/ s.pc[t] = "wait"

\* The waiter task t is suspended on is done: its step is scheduled.
Woken(s, t) ==
    \/ s.pc[t] = "acquire" /\ WaiterIn(s.waiters, t).state # PENDING
    \/ s.pc[t] = "wait" /\ WaiterIn(s.cwaiters, t).state # PENDING

LkInit ==
    /\ FutInit
    /\ SRIdle
    /\ tr = NoTransport
    /\ loop = NoLoop
    /\ ps = NoParsers
    /\ sy = NewLock(SyTasks)

LkAcquire ==
    \E t \in DOMAIN sy.pc :
        /\ sy.pc[t] \in {"idle", "done"}
        /\ sy' = Lock_acquire(sy, t, None)
        /\ UNCHANGED notSyVars

LkRelease ==
    \E t \in DOMAIN sy.pc :
        /\ sy.pc[t] \in {"held", "unwind"}
        /\ sy' = Lock_release(sy, t)
        /\ UNCHANGED notSyVars

LkStep ==
    \E t \in DOMAIN sy.pc :
        /\ Woken(sy, t)
        /\ sy' = IF sy.pc[t] = "acquire" THEN acquire_wakeup(sy, t)
                 ELSE wait_wakeup(sy, t)
        /\ UNCHANGED notSyVars

LkCancel ==
    \E t \in DOMAIN sy.pc :
        /\ Suspended(sy, t)
        /\ sy' = cancel_waiting(sy, t)
        /\ UNCHANGED notSyVars

LkNext ==
    \/ LkAcquire
    \/ LkRelease
    \/ LkStep
    \/ LkCancel

SpecLock == LkInit /\ [][LkNext]_vars

(***************************************************************************)
(* Specification of a Condition: the tasks of the Lock specification may   *)
(* also wait on the condition, with or without a timeout, and notify it.   *)
(***************************************************************************)
CvInit ==
    /\ FutInit
    /\ SRIdle
    /\ tr = NoTransport
    /\ loop = NoLoop
    /\ ps = NoParsers
    /\ sy = NewLock(1 .. NumCondTasks)

CvWait ==
    \E t \in DOMAIN sy.pc, timeout \in BOOLEAN :
        /\ sy.pc[t] = "held"
        /\ sy' = Condition_wait(sy, t, timeout)
        /\ UNCHANGED notSyVars

CvNotify ==
    \E t \in DOMAIN sy.pc, n \in 1 .. MaxNotify :
        /\ sy.pc[t] = "held"
        /\ sy' = Condition_notify(sy, n)
        /\ UNCHANGED notSyVars

CvTimeout ==
    \E t \in DOMAIN sy.pc :
        /\ sy.pc[t] = "wait" /\ WaiterIn(sy.cwaiters, t).timeout
        /\ sy' = timeout_expires(sy, t)
        /\ UNCHANGED notSyVars

CvNext ==
    \/ LkAcquire
    \/ LkRelease
    \/ LkStep
    \/ LkCancel
    \/ CvWait
    \/ CvNotify
    \/ CvTimeout

SpecCond == CvInit /\ [][CvNext]_vars

(***************************************************************************)
(* Specification of a Semaphore(SemValue) shared by NumSyTasks tasks: each *)
(* acquires it and releases what it acquired, any number of times, and may *)
(* be cancelled while parked.                                              *)
(***************************************************************************)
SmInit ==
    /\ FutInit
    /\ SRIdle
    /\ tr = NoTransport
    /\ loop = NoLoop
    /\ ps = NoParsers
    /\ sy = NewSemaphore(SemValue, SyTasks)

SmAcquire ==
    \E t \in DOMAIN sy.pc :
        /\ sy.pc[t] \in {"idle", "done"}
        /\ sy' = Semaphore_acquire(sy, t)
        /\ UNCHANGED notSyVars

SmRelease ==
    \E t \in DOMAIN sy.pc :
        /\ sy.pc[t] = "held"
        /\ sy' = Semaphore_release(sy, t)
        /\ UNCHANGED notSyVars

SmStep ==
    \E t \in DOMAIN sy.pc :
        /\ Woken(sy, t)
        /\ sy' = Semaphore_wakeup(sy, t)
        /\ UNCHANGED notSyVars

SmNext ==
    \/ SmAcquire
    \/ SmRelease
    \/ SmStep
    \/ LkCancel

SpecSem == SmInit /\ [][SmNext]_vars

(***************************************************************************)
(* Specification of a Queue, unbounded or of size QueueMaxsize, shared by  *)
(* NumSyTasks tasks that put up to MaxItems items and get them, parking or *)
(* not, and may be cancelled while parked.                                 *)
(***************************************************************************)
QuInit ==
    /\ FutInit
    /\ SRIdle
    /\ tr = NoTransport
    /\ loop = NoLoop
    /\ ps = NoParsers
    /\ sy \in {NewQueue(maxsize, SyTasks) : maxsize \in {0, QueueMaxsize}}

QuPut ==
    \E t \in DOMAIN sy.pc, nowait \in BOOLEAN :
        /\ sy.pc[t] \in {"idle", "done"}
        /\ sy.next < MaxItems
        /\ sy' = [Queue_put(sy, t, sy.next + 1, nowait) EXCEPT
                    !.next = IF Queue_put(sy, t, sy.next + 1, nowait).raised = Full
                             THEN @ ELSE @ + 1]
        /\ UNCHANGED notSyVars

QuGet ==
    \E t \in DOMAIN sy.pc, nowait \in BOOLEAN :
        /\ sy.pc[t] \in {"idle", "done"}
        /\ sy' = Queue_get(sy, t, nowait)
        /\ UNCHANGED notSyVars

QuStep ==
    \E t \in DOMAIN sy.pc :
        /\ sy.pc[t] \in {"get", "put"}
        /\ sy.fut[t].state # PENDING
        /\ sy' = Queue_wakeup(sy, t)
        /\ UNCHANGED notSyVars

QuCancel ==
    \E t \in DOMAIN sy.pc :
        /\ sy.pc[t] \in {"get", "put"}
        /\ sy' = cancel_parked(sy, t)
        /\ UNCHANGED notSyVars

QuNext ==
    \/ QuPut
    \/ QuGet
    \/ QuStep
    \/ QuCancel

SpecQueue == QuInit /\ [][QuNext]_vars

(***************************************************************************)
(* Claims about plain Futures, checked under SpecFut.                      *)
(***************************************************************************)

\* C9: a Future's state only changes from PENDING: once it is CANCELLED or
\* FINISHED no step changes its state, result or exception, and a set_result
\* or set_exception made on it raises InvalidStateError.
C9_FutureStateIsFinal ==
    [][\A f \in DOMAIN futs :
          /\ futs[f].state # PENDING =>
                /\ futs'[f].state = futs[f].state
                /\ futs'[f].result = futs[f].result
                /\ futs'[f].exception = futs[f].exception
          /\ ( /\ last'.n # last.n
               /\ last'.f = f
               /\ last'.op \in {"set_result", "set_exception"}
               /\ futs[f].state # PENDING )
             => last'.exc = InvalidStateError]_vars

\* C9 witness: set_result was called on a cancelled Future and raised.
C9_Witness ==
    /\ last.op = "set_result"
    /\ last.exc = InvalidStateError
    /\ futs[last.f].state = CANCELLED

\* C10: set_result, set_exception, cancel and add_done_callback run no
\* done-callback before they return: the call leaves the log of dispatched
\* callbacks alone and appends to the ready queue one handle per callback,
\* in registration order (for add_done_callback on a done Future, the one
\* handle of the callback given).
C10_CallbacksNeverInline ==
    [][last'.n # last.n =>
         /\ ran' = ran
         /\ Len(ready') >= Len(ready)
         /\ SubSeq(ready', 1, Len(ready)) = ready
         /\ LET f == last'.f
                new == SubSeq(ready', Len(ready) + 1, Len(ready'))
                newDone == SelectSeq(new, LAMBDA h : h.cb.fn = "user")
            IN  /\ (futs[f].state = PENDING /\ futs'[f].state # PENDING) =>
                      newDone = [i \in 1..Len(futs[f].callbacks) |->
                                   Handle(futs[f].callbacks[i], f, "-")]
                /\ (last'.op = "add_done_callback" /\ futs[f].state # PENDING) =>
                      newDone = <<Handle(Callback("user", last'.arg), f, "-")>>
                /\ (last'.op = "add_done_callback" /\ futs[f].state = PENDING) =>
                      /\ new = <<>>
                      /\ futs'[f].callbacks =
                            Append(futs[f].callbacks, Callback("user", last'.arg))
       ]_vars

\* C10 witness: a Future with two callbacks has just been completed by
\* set_result; both callbacks wait on the ready queue and none has run.
C10_Witness ==
    /\ last.op = "set_result"
    /\ last.exc = None
    /\ ran = <<>>
    /\ Len(SelectSeq(ready, LAMBDA h : h.cb.fn = "user" /\ h.arg = last.f)) = 2

(***************************************************************************)
(* Claims about the StreamReader, checked under SpecSR.                    *)
(***************************************************************************)

\* C7 as stated: readexactly(n), n > 0, never returns normally with fewer
\* than n bytes (EOF before n bytes raises IncompleteRead instead).
C7_ReadexactlyNeverShort ==
    (rd.op = "readexactly" /\ rd.n > 0 /\ rd.status = "done" /\ rd.exc = None)
        => Len(rd.ret) = rd.n

\* C7 amended: when readexactly(n), n > 0, finishes after EOF was fed with
\* fewer than n bytes buffered and no exception set on the reader, it
\* returns normally exactly the buffered bytes and empties the buffer,
\* unless the reading task was cancelled; it never raises IncompleteRead.
C7_ReadexactlyReturnsPartialAtEof ==
    [][( /\ rd'.op = "readexactly"
         /\ rd'.n > 0
         /\ rd'.status = "done"
         /\ (rd.status = "suspended" \/ fed'.reads # fed.reads) )
       => /\ rd'.exc # "IncompleteRead"
          /\ ( /\ sr.eof
               /\ Len(join(sr.buffer)) < rd'.n
               /\ sr.exception = None
               /\ rd'.exc # CancelledError )
             => /\ rd'.exc = None
                /\ rd'.ret = join(sr.buffer)
                /\ sr'.buffer = <<>>]_vars

\* C7 witness: readexactly(n) has returned some but fewer than n bytes
\* after EOF.
C7_Witness ==
    /\ rd.op = "readexactly"
    /\ rd.status = "done"
    /\ rd.exc = None
    /\ sr.eof
    /\ rd.ret # <<>>
    /\ Len(rd.ret) < rd.n

(***************************************************************************)
(* Claims about Tasks, wait and wait_for, checked under SpecTask.          *)
(***************************************************************************)
Outer == tasks["T2"].prog

\* The program neither catches CancelledError itself nor calls wait,
\* wait_for or as_completed.
DoesNotCatch(prog) ==
    \A i \in 1..Len(prog) :
        ~prog[i].catch /\ prog[i].op \notin {"wait", "wait_for", "as_completed"}

\* C1: when wait_for(fut, timeout) has raised TimeoutError in a task that
\* nobody cancelled, and the loop has dispatched every handle, fut is
\* CANCELLED.
C1_WaitForTimeoutCancelsFut ==
    \A f \in {"T1", "F2"} :
        (/\ Outer = <<WaitFor(f, TRUE)>>
         /\ futs["T2"].state = FINISHED
         /\ futs["T2"].exception = TimeoutError
         /\ tasks["T2"].cancel_at = None
         /\ ready = <<>>)
        => futs[f].state = CANCELLED

\* C2: a Task whose cancel() returned True while its coroutine was suspended
\* inside wait(), and whose coroutine does nothing else, ends CANCELLED.
C2_CancelReachesTaskInWait ==
    (/\ Len(Outer) = 1
     /\ Outer[1].op = "wait"
     /\ tasks["T2"].cancel_at = "wait"
     /\ futs["T2"].state # PENDING)
    => futs["T2"].state = CANCELLED

\* C8: once cancel() has returned True for a Task whose coroutine does not
\* catch CancelledError, and _step has been called since, the Task is
\* CANCELLED, wherever cancel() was called from.
C8_CancelThrowsAtNextStep ==
    \A t \in DOMAIN tasks :
        (/\ DoesNotCatch(tasks[t].prog)
         /\ tasks[t].cancel_at # None
         /\ tasks[t].stepped)
        => futs[t].state = CANCELLED

(***************************************************************************)
(* Claims about the transports, checked under SpecTr and SpecTrLive.       *)
(***************************************************************************)

\* C3: a transport that has started closing delivers connection_lost, and no
\* transport ever delivers it twice.
C3_ConnectionLostExactlyOnce ==
    /\ [](tr.closing => <>(Len(tr.lost) = 1))
    /\ [](Len(tr.lost) <= 1)

\* C4: abort() called before connection_lost has been delivered leaves the
\* write buffer empty.
C4_AbortDiscardsBuffer ==
    [][(tr'.aborts # tr.aborts /\ tr.lost = <<>>) => tr'.buffer = <<>>]_vars

\* C5: a transport that a failed socket call tore down with exc delivers
\* connection_lost(exc).
C5_ConnectionLostCarriesExc ==
    (tr.close_cause # None /\ tr.lost # <<>>) => tr.lost[1] = tr.close_cause

\* C6 as stated: when recv returns empty data and eof_received() asks to keep
\* reading, the socket transport is not closed.
C6_KeepReadingLeavesOpen ==
    [][(tr.kind = "socket" /\ tr'.eofs # tr.eofs /\ tr'.keep)
          => ~tr'.closing]_vars

\* C6 as the code has it: on the socket transport an empty recv calls
\* eof_received() and then closes the transport whatever eof_received()
\* returns (closing set, reader removed), and a write() made once the
\* transport is closing is dropped: nothing is buffered and nothing sent.
C6_EofAlwaysCloses ==
    [][/\ (tr.kind = "socket" /\ tr'.eofs # tr.eofs)
            => (tr'.closing /\ tr'.reader = None /\ tr'.conn_lost > 0)
       /\ (tr.kind = "socket" /\ tr.closing /\ tr'.writes # tr.writes)
            => (tr'.buffer = tr.buffer /\ tr'.sent = tr.sent)]_vars

\* The protocol asked to keep reading at EOF, the transport closed all the
\* same and dropped a later write.
C6_Witness ==
    /\ tr.kind = "socket"
    /\ tr.eofs = 1 /\ tr.keep
    /\ tr.closing
    /\ tr.writes > 0 /\ tr.sent = <<>> /\ tr.buffer = <<>>
    /\ tr.conn_lost >= 2

\* C11: on the socket transport the bytes handed to send, in send order, are
\* a prefix of the bytes passed to write(), in write order: byte i of what was
\* sent is byte i of what was written.
C11_SentIsPrefixOfWritten ==
    tr.kind = "socket" =>
        /\ Len(tr.sent) <= tr.written
        /\ \A i \in 1..Len(tr.sent) : tr.sent[i] = i

\* All four bytes of two writes went out, after a blocked or partial send
\* and a pause.
C11_Witness ==
    /\ tr.kind = "socket"
    /\ Len(tr.sent) = 4
    /\ tr.stalls >= 1 /\ tr.pauses >= 1

\* What the protocol has been called with.
ProtocolLog == <<tr.made, tr.lost, tr.refused, tr.eofs, tr.received>>

\* C12: once connection_lost has been invoked, no step invokes a protocol
\* callback (connection_made, data_received, datagram_received,
\* eof_received, connection_refused, connection_lost) again.
C12_NoCallbackAfterConnectionLost ==
    [][tr.lost # <<>> => ProtocolLog' = ProtocolLog]_vars

\* The TLS transport delivered connection_lost inline and the loop has since
\* dispatched the _call_connection_lost that the fatal error had scheduled.
C12_Witness ==
    /\ tr.kind = "ssl"
    /\ Len(tr.lost) = 1 /\ tr.close_cause # None
    /\ tr.ready = <<>>

(***************************************************************************)
(* Claims about wait, checked under SpecTask.                              *)
(***************************************************************************)
OuterIsWait == Len(Outer) = 1 /\ Outer[1].op = "wait"

WaitFs == Range(Outer[1].fs)

ChildStates == [f \in {"T1", "F1", "F2"} |-> futs[f].state]

\* The step in which the wait() of T2 returns to its coroutine.
WaitReturns == tasks["T2"].at = "wait" /\ tasks'["T2"].at # "wait"

\* C13: a wait(fs, timeout) cancels no future: neither the step that cancels
\* its waiter (the timeout handle among them) nor the step in which wait
\* returns changes the state of a child, and wait returns as pending exactly
\* the futures of fs that are PENDING.
C13_WaitTimeoutCancelsNoChild ==
    [][(OuterIsWait /\ Outer[1].timeout /\ tasks["T2"].at = "wait")
          => /\ futs'["W2"].state # futs["W2"].state
                    => ChildStates' = ChildStates
             /\ WaitReturns
                    => /\ ChildStates' = ChildStates
                       /\ tasks'["T2"].wpending =
                              {f \in WaitFs : futs'[f].state = PENDING}
                       /\ tasks'["T2"].wdone = WaitFs \ tasks'["T2"].wpending]_vars

\* wait(fs, timeout, return_when=ALL_COMPLETED) has returned with both futures
\* pending, in a task nobody cancelled: the timeout elapsed, and both are
\* still PENDING.
C13_Witness ==
    /\ OuterIsWait /\ Outer[1].timeout /\ Outer[1].return_when = ALL_COMPLETED
    /\ tasks["T2"].cancel_at = None
    /\ futs["T2"].state = FINISHED
    /\ tasks["T2"].wpending = {"T1", "F2"}
    /\ futs["T1"].state = PENDING /\ futs["F2"].state = PENDING

\* What return_when promises of the two sets wait returned.
ReturnWhenHolds(k) ==
    CASE k.return_when = ALL_COMPLETED -> k.wpending = {}
      [] k.return_when = FIRST_COMPLETED -> k.wdone # {}
      [] k.return_when = FIRST_EXCEPTION ->
            \/ k.wpending = {}
            \/ \E f \in k.wdone :
                   futs'[f].state = FINISHED /\ futs'[f].exception # None

\* C14: when wait(fs, return_when=R) without timeout returns, done and
\* pending partition fs, done is exactly the futures that are done, and R's
\* condition holds.
C14_WaitReturnWhen ==
    [][(OuterIsWait /\ ~Outer[1].timeout /\ WaitReturns)
          => /\ tasks'["T2"].wdone = {f \in WaitFs : futs'[f].state # PENDING}
             /\ tasks'["T2"].wpending = WaitFs \ tasks'["T2"].wdone
             /\ ReturnWhenHolds(tasks'["T2"])]_vars

\* C14 for a waiting task that nobody cancels.
C14_WaitReturnWhenNotCancelled ==
    [][(OuterIsWait /\ ~Outer[1].timeout /\ WaitReturns
          /\ tasks'["T2"].cancel_at = None)
          => /\ tasks'["T2"].wdone = {f \in WaitFs : futs'[f].state # PENDING}
             /\ tasks'["T2"].wpending = WaitFs \ tasks'["T2"].wdone
             /\ ReturnWhenHolds(tasks'["T2"])]_vars

OuterIsAsCompleted == Len(Outer) = 1 /\ Outer[1].op = "as_completed"

\* The children of the as_completed, in the order in which they completed
\* (the order in which their done-callbacks ran).
CompletionOrder == [i \in 1..Len(ran) |-> ran[i][2]]

\* The position of the child f in the completion order.
CompletedAt(f) == CHOOSE i \in 1..Len(ran) : ran[i][2] = f

\* C15: awaiting the awaitables of as_completed(fs) in iteration order
\* returns the children's results in completion order: the i-th awaited value
\* is the result of the i-th child to complete.
C15_ValuesInCompletionOrder ==
    (OuterIsAsCompleted /\ ready = <<>>)
        => \A i \in 1..Len(tasks["T2"].values) :
               /\ i <= Len(ran)
               /\ tasks["T2"].values[i] = futs[CompletionOrder[i]].result

\* C15 as the code has it: the awaited values are the results of the children
\* in the order in which as_completed found them done, each child once; a
\* child found done at an earlier return of _wait than another completed
\* before it, and children found done together come in the set's order.
C15_ValuesInOrderFound ==
    (OuterIsAsCompleted /\ ready = <<>>)
        => LET k == tasks["T2"]
           IN  /\ Len(k.values) <= Len(k.found)
               /\ \A i \in 1..Len(k.values) :
                      k.values[i] = futs[k.found[i].f].result
               /\ \A i \in 1..Len(k.found) :
                      /\ futs[k.found[i].f].state # PENDING
                      /\ \A j \in (i + 1)..Len(k.found) :
                             /\ k.found[j].f # k.found[i].f
                             /\ \/ k.found[j].f \in k.found[i].with
                                \/ CompletedAt(k.found[i].f)
                                       < CompletedAt(k.found[j].f)

\* Both children completed before the awaiting task was resumed, and the
\* second to complete was returned first.
C15_Witness ==
    /\ OuterIsAsCompleted
    /\ ready = <<>>
    /\ futs["T2"].state = FINISHED
    /\ CompletionOrder = <<"T1", "F2">>
    /\ tasks["T2"].values = <<"b", "a">>

(***************************************************************************)
(* Claims about the event loop core, checked under SpecLoop.               *)
(***************************************************************************)

\* C16: a callback enqueued while iteration N is dispatching its ready queue
\* is dispatched no earlier than iteration N+1: every handle that an
\* iteration runs was created before that iteration, so the iteration runs
\* only the handles that were in the ready queue when its drain started.
C16_EnqueuedDuringDispatchRunsLater ==
    \A i \in 1..Len(loop.log) : loop.log[i].made < loop.log[i].iteration

\* A timer that a callback scheduled as already due during iteration 1 has
\* run in iteration 2, after the handle that was in the ready queue then.
C16_Witness ==
    /\ Len(loop.log) = 3
    /\ loop.log[1].iteration = 1 /\ ~loop.log[1].timer
    /\ loop.log[2].iteration = 2 /\ ~loop.log[2].during
    /\ loop.log[3].iteration = 2 /\ loop.log[3].during /\ loop.log[3].timer
    /\ loop.log[3].made = 1

\* C17: callbacks scheduled with call_soon run in FIFO order: of two handles
\* of call_soon that have run, the one scheduled first ran first.
C17_CallSoonFifo ==
    \A i, j \in 1..Len(loop.log) :
        (i < j /\ ~loop.log[i].timer /\ ~loop.log[j].timer)
            => loop.log[i].id < loop.log[j].id

\* Two handles of call_soon have run, the second one scheduled by the
\* callback of the first, while the handle scheduled between them was
\* cancelled.
C17_Witness ==
    /\ Len(loop.log) = 2
    /\ \A i \in 1..2 : ~loop.log[i].timer
    /\ loop.log[1].id = 1 /\ loop.log[2].id = 3 /\ loop.log[2].during
    /\ loop.cancelled = {2}
    /\ loop.ready = <<>>

\* C18: timers run in order of their deadline, and timers with equal
\* deadlines in the order in which they were scheduled: of two timers that
\* were in the heap together, the one that ran first has the earlier
\* deadline or, the deadlines being equal, was scheduled first.
C18_TimersByWhenThenInsertion ==
    \A i, j \in 1..Len(loop.log) :
        (/\ i < j
         /\ loop.log[i].timer /\ loop.log[j].timer
         /\ loop.log[j].made < loop.log[i].iteration)
            => \/ loop.log[i].when < loop.log[j].when
               \/ /\ loop.log[i].when = loop.log[j].when
                  /\ loop.log[i].id < loop.log[j].id

\* C18 as the code has it: of two timers that were in the heap together, the
\* one that ran first has the earlier or the same deadline; timers with equal
\* deadlines run in the order in which the heap yields them.
C18_TimersByWhen ==
    \A i, j \in 1..Len(loop.log) :
        (/\ i < j
         /\ loop.log[i].timer /\ loop.log[j].timer
         /\ loop.log[j].made < loop.log[i].iteration)
            => loop.log[i].when <= loop.log[j].when

\* Three timers have run in one iteration, two with equal deadlines and the
\* one scheduled last with the earliest deadline.
C18_Witness ==
    /\ Len(loop.log) = 3
    /\ \A i \in 1..3 : loop.log[i].timer /\ loop.log[i].iteration = 1
    /\ loop.log[1].id = 3
    /\ loop.log[2].when = loop.log[3].when
    /\ loop.log[1].when < loop.log[2].when

(***************************************************************************)
(* Claims about done-callbacks and cancel, checked under SpecFut and       *)
(* SpecTask.                                                               *)
(***************************************************************************)

\* The done-callbacks of f that have run, those that wait on the ready queue
\* and those that are registered on f, each in its order.
RanOf(f) ==
    LET s == SelectSeq(ran, LAMBDA e : e[2] = f)
    IN  [i \in 1..Len(s) |-> s[i][1]]

QueuedOf(f) ==
    LET s == SelectSeq(ready, LAMBDA h : h.cb.fn = "user" /\ h.arg = f)
    IN  [i \in 1..Len(s) |-> s[i].cb.self]

RegisteredOf(f) ==
    [i \in 1..Len(futs[f].callbacks) |-> futs[f].callbacks[i].self]

LineOf(f) == RanOf(f) \o QueuedOf(f) \o RegisteredOf(f)

\* C19: the done-callbacks of a Future run in registration order, each
\* registered callback once, including those added after the Future is done:
\* the callbacks that ran, those queued and those registered form one line
\* in registration order; add_done_callback appends to its end,
\* remove_done_callback takes out callbacks that are not yet scheduled, and
\* no other step changes the line, whose callbacks only move towards the log
\* of callbacks run.
C19_CallbacksInRegistrationOrder ==
    [][\A f \in FutIds :
          /\ futs[f].state = PENDING => RanOf(f) = <<>> /\ QueuedOf(f) = <<>>
          /\ futs[f].state # PENDING => RegisteredOf(f) = <<>>
          /\ Len(RanOf(f)') >= Len(RanOf(f))
          /\ Len(RegisteredOf(f)') + Len(QueuedOf(f)')
                 <= Len(RegisteredOf(f)) + Len(QueuedOf(f)) + 1
          /\ IF last'.n # last.n /\ last'.f = f /\ last'.op = "add_done_callback"
             THEN LineOf(f)' = Append(LineOf(f), last'.arg)
             ELSE IF last'.n # last.n /\ last'.f = f
                     /\ last'.op = "remove_done_callback"
             THEN LineOf(f)' =
                      RanOf(f) \o QueuedOf(f)
                          \o SelectSeq(RegisteredOf(f), LAMBDA c : c # last'.arg)
             ELSE LineOf(f)' = LineOf(f)]_vars

\* Two callbacks registered on a pending Future and one added after it was
\* done have all run, in that order.
C19_Witness ==
    /\ RanOf("F1") = <<"cb2", "cb1", "cb2">>
    /\ last.op = "add_done_callback"
    /\ ready = <<>>

\* The loop dispatches handles until the ready queue is empty.
RECURSIVE run_forever(_)
run_forever(w) == IF w.ready = <<>> THEN w ELSE run_forever(_run_once(w))

\* What becomes of the world when user code gives the plain Futures that are
\* still pending their results, F2 first, and the loop runs on.
Settle(w) ==
    LET w1 == run_forever(w)
        w2 == run_forever(set_result(w1, "F2", ResultOf("F2")).w)
    IN  run_forever(set_result(w2, "F1", ResultOf("F1")).w)

Outcome(w, x) == <<w.futs[x].state, w.futs[x].result, w.futs[x].exception>>

\* cancel() called twice on x is as cancel() called once: it ends in the same
\* state, the second call returns False when x is cancelled, and it schedules
\* nothing more.
CancelTwiceAsOnce(x) ==
    LET r1 == cancel(World, x)
        r2 == cancel(r1.w, x)
    IN  /\ Outcome(Settle(r2.w), x) = Outcome(Settle(r1.w), x)
        /\ r1.w.futs[x].state = CANCELLED =>
               /\ ~r2.ret
               /\ r2.w.futs = r1.w.futs
        /\ r2.w.ready = r1.w.ready

\* C20: cancel() is idempotent: N calls produce the same terminal state as
\* one, a cancel() on an already-cancelled Future or Task returns False, and
\* the done-callbacks are scheduled only once.
C20_CancelIdempotent == \A x \in PlainFuts \cup TaskIds : CancelTwiceAsOnce(x)

\* C20 for the plain Futures only.
C20_FutureCancelIdempotent == \A x \in PlainFuts : CancelTwiceAsOnce(x)

\* C20 for the Tasks whose coroutine neither catches CancelledError nor
\* calls wait, wait_for or as_completed.
C20_TaskCancelIdempotentNoCatch ==
    \A x \in TaskIds :
        DoesNotCatch(Outer) => CancelTwiceAsOnce(x)

(***************************************************************************)
(* Claims about the selector loop, checked under SpecSel.                  *)
(***************************************************************************)

\* The handles that the step from loop to loop' has run.
RanInStep ==
    {loop'.log[i].id : i \in (Len(loop.log) + 1)..Len(loop'.log)}

\* C21: a Handle that is cancelled before it is dispatched never runs its
\* callback: no handle is run while cancelled, a handle that is cancelled
\* when an iteration starts is not run by it, and a cancelled reader or
\* writer that select reports ready is removed from the selector.
C21_CancelledHandleNeverRuns ==
    [][ /\ loop'.ran_cancelled = {}
        /\ RanInStep \cap loop.cancelled = {}
        /\ ( /\ loop'.iteration # loop.iteration
             /\ "r" \in loop'.events
             /\ loop.reader.id \in loop.cancelled ) => loop'.reader = NoHandle
        /\ ( /\ loop'.iteration # loop.iteration
             /\ "w" \in loop'.events
             /\ loop.writer.id \in loop.cancelled ) => loop'.writer = NoHandle
      ]_vars

\* C21 witness: three handles were cancelled while they waited, one on the
\* ready queue, one on the timer heap (which was due) and the reader, which
\* select reported ready and which is registered no more; none was run.
C21_Witness ==
    /\ loop.cancelled = {1, 2, 3}
    /\ loop.events = {"r"}
    /\ loop.reader = NoHandle
    /\ loop.iteration = 1
    /\ loop.handles = 3
    /\ loop.ready = <<>> /\ loop.scheduled = <<>>
    /\ loop.log = <<>>

\* C21 witness: the reader was reported ready and joined the ready queue,
\* and a callback that ran before it in the same iteration removed it.
C21_WitnessRemovedInIteration ==
    /\ loop.iteration = 1
    /\ loop.events = {"r"}
    /\ Len(loop.log) = 1
    /\ loop.log[1].id = 2
    /\ loop.cancelled = {1}
    /\ loop.reader = NoHandle
    /\ loop.ready = <<>>

\* C22 (as stated): no exception raised by a callback leaves the iteration;
\* every handle that was due is dispatched and the loop runs on.
C22_AnyExceptionIsCaught ==
    /\ loop.killed = None
    /\ \A i \in 1..Len(loop.ready) : loop.ready[i].made = loop.iteration

\* C22: an exception that derives from Exception, raised by a scheduled
\* callback, is caught and logged; the handles that follow it in the
\* iteration are dispatched, and so are the later iterations.  Only an
\* exception that does not derive from Exception leaves the iteration.
C22_ExceptionIsCaught ==
    /\ loop.killed \in {None, BaseException}
    /\ loop.killed = None =>
           \A i \in 1..Len(loop.ready) : loop.ready[i].made = loop.iteration

\* C22 witness: the first handle raised and was logged, the second ran in
\* the same iteration, and a third ran in the next iteration.
C22_Witness ==
    /\ loop.logged = <<1>>
    /\ Len(loop.log) = 3
    /\ loop.log[1].iteration = 1
    /\ loop.log[2].iteration = 1
    /\ loop.log[3].iteration = 2
    /\ loop.killed = None

(***************************************************************************)
(* More claims about the transports, checked under SpecTr.                 *)
(***************************************************************************)

\* The step is a write() or a sendto() on a transport that is closing or has
\* lost its connection.
WriteAfterClose ==
    /\ tr'.writes # tr.writes
    /\ tr.closing \/ tr.conn_lost > 0 \/ tr.lost # <<>>

\* The step sends nothing on the socket and adds nothing to the buffer.
Dropped == tr'.sent = tr.sent /\ tr'.buffer = tr.buffer

\* C23: once a transport is closing or has lost its connection, the data
\* passed to write() or sendto() is dropped: it is neither sent on the socket
\* nor added to the write buffer.
C23_WriteAfterCloseIsDropped == [][WriteAfterClose => Dropped]_vars

\* C23 for the stream and TLS transports and for the datagram transport that
\* has a connected peer address.
C23_DroppedUnlessUnconnected ==
    [][(WriteAfterClose /\ (tr.kind # "datagram" \/ tr.address)) => Dropped]_vars

\* The handles of _call_connection_lost(exc) in the ready queue.
LostScheduled(w, exc) ==
    {i \in DOMAIN w.ready :
        w.ready[i].fn = "_call_connection_lost" /\ w.ready[i].arg = exc}

\* C24: when a send of the datagram transport raises ConnectionRefusedError
\* and the transport has no peer address, the error is dropped: the
\* transport is as open as it was and no protocol callback is made or
\* scheduled.  When the transport has a peer address the error is fatal:
\* protocol.connection_refused is called and the transport is closing; if it
\* was not closing before, its buffer is cleared, its reader and writer are
\* removed and connection_lost(exc) is scheduled.
C24_ConnectionRefused ==
    [][tr'.refusals # tr.refusals =>
         IF tr.address
         THEN /\ tr'.refused = tr.refused + 1
              /\ tr'.closing /\ tr'.conn_lost > 0
              /\ ~tr.closing =>
                    /\ tr'.buffer = <<>>
                    /\ tr'.reader = None /\ tr'.writer = None
                    /\ LostScheduled(tr', ConnectionRefusedError) # {}
         ELSE /\ tr'.closing = tr.closing /\ tr'.conn_lost = tr.conn_lost
              /\ tr'.reader = tr.reader
              /\ ProtocolLog' = ProtocolLog
              /\ \A exc \in {None, OSError, ConnectionRefusedError} :
                     Cardinality(LostScheduled(tr', exc))
                         = Cardinality(LostScheduled(tr, exc))
      ]_vars

\* C24 witness: a send of the transport without peer address was refused
\* and the transport is open; its protocol has seen connection_made only.
C24_Witness ==
    /\ tr.kind = "datagram" /\ ~tr.address
    /\ tr.refusals = 1
    /\ ~tr.closing /\ tr.conn_lost = 0
    /\ tr.made /\ tr.lost = <<>> /\ tr.refused = 0
    /\ tr.ready = <<>>

\* C24 witness: a send of the transport with a peer address was refused;
\* connection_refused and then connection_lost(exc) were called.
C24_WitnessConnected ==
    /\ tr.kind = "datagram" /\ tr.address
    /\ tr.refusals = 1
    /\ tr.refused = 1
    /\ tr.lost = <<ConnectionRefusedError>>

(***************************************************************************)
(* Claims about the parsers, checked under SpecParser.                     *)
(***************************************************************************)

\* What a StreamBuffer shows when all is fed: the items of its DataBuffer,
\* the DataBuffer's exception and eof flag, and the bytes left in its
\* ParserBuffer.
Observed(sb) ==
    <<sb.out.buffer, sb.out.exception, sb.out.eof, ParserBuffer_bytes(sb.buffer)>>

\* C25: round-trip law: for lines_parser, chunks_parser and a parser built on
\* readuntil, feeding the chunks of any partition of S and then EOF gives the
\* same DataBuffer items, the same error and the same unconsumed bytes as
\* feeding S in one chunk and then EOF.
C25_RoundTrip ==
    (ps.whole.eof /\ ps.split.eof) => Observed(ps.split) = Observed(ps.whole)

\* C25 witness: a line and the first two bytes of the next one were fed to
\* lines_parser in three chunks that cut both, and whole; EOF was fed; the
\* DataBuffer holds the line and the ParserBuffer the two bytes.
C25_Witness ==
    /\ ps.p = lines_parser(ParserLimit)
    /\ ps.S = <<"x", NL, "x", "x">>
    /\ ps.cuts = <<1, 2, 1>>
    /\ ps.whole.eof /\ ps.split.eof
    /\ ps.split.out.buffer = <<<<"x", NL>>>>
    /\ ps.split.out.exception = None
    /\ ParserBuffer_bytes(ps.split.buffer) = <<"x", "x">>

(***************************************************************************)
(* Claims about Lock, checked under SpecLock.                              *)
(***************************************************************************)

\* The positions of the waiters of queue q that are still pending.
PendingIn(q) == {i \in DOMAIN q : q[i].state = PENDING}

C27_ReturnHoldsLock ==
    /\ \A t \in DOMAIN sy.pc : sy.pc[t] = "wait" => t \notin sy.holders
    /\ sy.exit.out \in {"True", "False"} => sy.exit.held

\* A wait() raised CancelledError with the lock held again.
C27_RaisedHoldingLock ==
    /\ sy.exit.out = CancelledError /\ sy.exit.held
    /\ sy.pc[sy.exit.t] = "unwind"

(***************************************************************************)
(* Claims about Semaphore, checked under SpecSem.                          *)
(***************************************************************************)

\* C28: a Semaphore created with value n is held by at most n tasks at any
\* time, and its counter is never negative.
C28_SemaphoreBound ==
    /\ Cardinality(sy.holders) <= sy.initial
    /\ sy.value >= 0

\* A release() has incremented the counter and resolved the parked waiter,
\* which has not run yet: one task holds the semaphore, the counter is 1 and
\* owed to the waiter.
C28_Witness ==
    /\ sy.value = 1 /\ Cardinality(sy.holders) = 1
    /\ Len(sy.waiters) = 1 /\ sy.waiters[1].state = FINISHED
    /\ \E t \in DOMAIN sy.pc : sy.pc[t] = "done"

(***************************************************************************)
(* Claims about Queue, checked under SpecQueue.                            *)
(***************************************************************************)

\* The items handed to getters that have not run yet.
InFlight(s) ==
    {s.fut[t].result : t \in {u \in DOMAIN s.pc : /\ s.pc[u] = "get"
                                                   /\ s.fut[u].state = FINISHED}}

\* The items of s.taken that no get returned and no getter is about to
\* return.
LostItems(s) ==
    {s.taken[i] : i \in DOMAIN s.taken} \ (s.got \cup InFlight(s))

C29_FifoLostOnlyWithResolvedGetter ==
    /\ sy.taken \o sy.queue = sy.puts
    /\ LostItems(sy) \subseteq
            {sy.fut[t].result : t \in {u \in DOMAIN sy.pc :
                                          /\ sy.pc[u] = "cancelled"
                                          /\ sy.must_cancel[u]}}

\* A getter was cancelled while parked, and the next put went to the
\* getter behind it, which returned the item.
C29_CancelledBeforePut ==
    /\ sy.pc[1] = "cancelled" /\ sy.fut[1].state = CANCELLED
    /\ sy.pc[2] = "done" /\ sy.fut[2].state = FINISHED
    /\ sy.puts = <<1>> /\ sy.got = {1}

\* The tasks that are not parked, and may call the queue.
Callers(s) == {t \in DOMAIN s.pc : s.pc[t] \in {"idle", "done"}}

\* C30: a Queue with maxsize m > 0 never holds more than m items; a put()
\* parks only on a full queue, and its waiter is resolved only by a step in
\* which a get takes an item; put_nowait on a full queue raises Full and
\* get_nowait on an empty queue raises Empty, and neither parks the caller
\* nor changes the queue.
C30_MaxsizeNeverExceeded ==
    [][/\ sy'.maxsize > 0 => Len(sy'.queue) <= sy'.maxsize
       /\ \A t \in DOMAIN sy.pc :
            /\ (sy.pc[t] # "put" /\ sy'.pc[t] = "put") =>
                    /\ sy.maxsize > 0 /\ Len(sy.queue) = sy.maxsize
                    /\ sy'.queue = sy.queue
            /\ (/\ sy.pc[t] = "put" /\ sy.fut[t].state = PENDING
                 /\ sy'.fut[t].state = FINISHED) =>
                    Len(sy'.taken) = Len(sy.taken) + 1
       /\ \A t \in Callers(sy) :
            /\ (sy.maxsize > 0 /\ Len(sy.queue) = sy.maxsize) =>
                    LET r == Queue_put(sy, t, sy.next + 1, TRUE)
                    IN  r.raised = Full /\ r.pc = sy.pc /\ r.queue = sy.queue
            /\ sy.queue = <<>> =>
                    LET r == Queue_get(sy, t, TRUE)
                    IN  r.raised = Empty /\ r.pc = sy.pc /\ r.queue = <<>>
       /\ sy'.raised = Full =>
            sy.maxsize > 0 /\ Len(sy.queue) = sy.maxsize /\ sy'.pc = sy.pc
       /\ sy'.raised = Empty => sy.queue = <<>> /\ sy'.pc = sy.pc]_vars

\* The queue of size QueueMaxsize is full, a put() is parked behind it, and
\* a put_nowait has just raised Full.
C30_Witness ==
    /\ sy.maxsize = QueueMaxsize /\ Len(sy.queue) = sy.maxsize
    /\ \E t \in DOMAIN sy.pc : sy.pc[t] = "put" /\ sy.fut[t].state = PENDING
    /\ sy.raised = Full

\* A get has taken an item from the full queue and resolved the parked
\* putter, whose item is now in the queue; get_nowait on the queue emptied
\* later raised Empty.
C30_WitnessEmpty ==
    /\ sy.maxsize = QueueMaxsize /\ sy.queue = <<>>
    /\ sy.raised = Empty
    /\ Len(sy.taken) = MaxItems
    /\ \E t \in DOMAIN sy.pc : sy.pc[t] = "put" /\ sy.fut[t].state = FINISHED

(***************************************************************************)
(* Claims about the Task state machine, checked under SpecTask.            *)
(***************************************************************************)

\* C31: each cancel() request injects CancelledError once: once _step has
\* run after a cancel() that set must_cancel, the flag is clear again, and
\* must_cancel is False in every Task that is done.
C31_MustCancelInjectsOnce ==
    \A t \in DOMAIN tasks :
        /\ done(World, t) => ~tasks[t].must_cancel
        /\ (tasks[t].cancel_at # None /\ tasks[t].stepped) =>
                ~tasks[t].must_cancel

\* Where the next _step of Task t is waiting: the handles on the ready queue
\* and on the timer heap that call its _step or _wakeup, and the Futures that
\* carry its _wakeup as a done-callback.
StepSources(t) ==
    {<<"ready", i>> : i \in {j \in 1..Len(ready) :
                               /\ ready[j].cb.self = t
                               /\ ready[j].cb.fn \in {"_step", "_wakeup"}}}
    \cup {<<"timer", h>> : h \in {x \in timers :
                               /\ x.cb.self = t
                               /\ x.cb.fn \in {"_step", "_wakeup"}}}
    \cup UNION {{<<f, i>> : i \in {j \in 1..Len(futs[f].callbacks) :
                               futs[f].callbacks[j] = Callback("_wakeup", t)}} :
                  f \in DOMAIN futs}

\* C32: for every Task at most one of these holds: a _step call for it is on
\* the ready queue, it is on the timer heap, its _wakeup is attached as a
\* done-callback; and a Task that is done has none of them, so that _step is
\* never run on a done Task.
C32_OneStepSource ==
    \A t \in DOMAIN tasks :
        /\ Cardinality(StepSources(t)) <= 1
        /\ done(World, t) => StepSources(t) = {}

\* Task T2 awaits Task T1 and has its _wakeup attached to it; T1 was
\* cancelled while its _step was scheduled, so must_cancel is set and that
\* _step is its only one.
C32_Witness ==
    /\ tasks["T2"].fut_waiter = "T1"
    /\ StepSources("T2") = {<<"T1", 1>>}
    /\ tasks["T1"].must_cancel /\ ~done(World, "T1")
    /\ \E i \in 1..Len(ready) : StepSources("T1") = {<<"ready", i>>}

\* C33: a Task is done exactly when its coroutine has ended, never while the
\* coroutine is still suspended; and it is then FINISHED with the value the
\* coroutine returned, FINISHED with the exception it raised, or CANCELLED
\* when the exception was CancelledError.
C33_DoneIffCoroutineEnded ==
    \A t \in DOMAIN tasks :
        LET k == tasks[t]
            f == futs[t]
        IN  /\ done(World, t) <=> k.at = "finished"
            /\ k.at # "finished" => k.ended.kind = None
            /\ k.at = "finished" =>
                 CASE k.ended.kind = "return" ->
                        /\ f.state = FINISHED
                        /\ f.result = k.ended.val /\ f.exception = None
                   [] k.ended.kind = "raise" /\ k.ended.val = CancelledError ->
                        f.state = CANCELLED
                   [] k.ended.kind = "raise" ->
                        f.state = FINISHED /\ f.exception = k.ended.val
                   [] OTHER -> FALSE

\* The three ways a coroutine ends have all happened: T1 returned the result
\* of the Future it awaited, or raised its exception, or was cancelled.
C33_WitnessReturned ==
    /\ tasks["T1"].ended.kind = "return" /\ futs["T1"].result = ResultOf("F1")
    /\ tasks["T2"].at \in {"await", "wait"}

C33_WitnessRaised ==
    /\ tasks["T1"].ended = [kind |-> "raise", val |-> "Err"]
    /\ futs["T1"].exception = "Err"

C33_WitnessCancelled ==
    /\ tasks["T1"].ended = [kind |-> "raise", val |-> CancelledError]
    /\ futs["T1"].state = CANCELLED
    /\ tasks["T1"].cancel_at = "await"

(***************************************************************************)
(* Claims about the registrations of a file descriptor, checked under      *)
(* SpecFd.                                                                 *)
(***************************************************************************)

\* The handles that add_reader and add_writer have made and that are not
\* cancelled.
LiveHandles(l) == (1..l.handles) \ l.cancelled

\* C34: after any sequence of add_reader, remove_reader, add_writer and
\* remove_writer the selector's mask for the file descriptor has READ exactly
\* when a reader handle is stored and WRITE exactly when a writer handle is
\* stored, the descriptor being unregistered exactly when neither is; and
\* every handle that was replaced or removed is cancelled, so that at most
\* one reader handle and one writer handle are live.
C34_MaskMatchesHandles ==
    /\ ("r" \in loop.mask) <=> (loop.reader # NoHandle)
    /\ ("w" \in loop.mask) <=> (loop.writer # NoHandle)
    /\ loop.registered <=> (loop.reader # NoHandle \/ loop.writer # NoHandle)
    /\ LiveHandles(loop) \subseteq {loop.reader.id, loop.writer.id}
    /\ loop.reader # NoHandle /\ loop.writer # NoHandle =>
            loop.reader.id # loop.writer.id

\* A reader was replaced and then removed while a writer stays registered:
\* the mask is WRITE alone, both earlier readers are cancelled and the writer
\* is the one live handle.
C34_Witness ==
    /\ loop.registered /\ loop.mask = {"w"}
    /\ loop.reader = NoHandle /\ loop.writer # NoHandle
    /\ loop.handles >= 3
    /\ LiveHandles(loop) = {loop.writer.id}

\* Both were removed: the file descriptor is unregistered again.
C34_WitnessUnregistered ==
    /\ ~loop.registered /\ loop.mask = {}
    /\ loop.handles >= 2 /\ LiveHandles(loop) = {}

(***************************************************************************)
(* Claims about the TLS handshake and the order of the protocol's          *)
(* callbacks, checked under SpecTr.                                        *)
(***************************************************************************)

\* The handles in the transport's ready queue that will call fn.
Queued(fn) ==
    {i \in DOMAIN tr.ready : tr.ready[i].fn = fn /\ ~tr.ready[i].cancelled}

\* C35: a TLS transport delivers connection_made exactly once and only after
\* do_handshake has succeeded: at that point the handshake's reader and
\* writer are gone, _on_ready is registered for READ and for WRITE,
\* connection_made is scheduled once and the waiter's result after it; when
\* do_handshake fails the socket is closed, the waiter gets the exception and
\* connection_made is never delivered.
C35_ConnectionMadeAfterHandshake ==
    tr.kind = "ssl" =>
        /\ tr.mades <= 1
        /\ (tr.mades = 1 \/ Queued("connection_made") # {}) =>
                tr.handshake = "done"
        /\ tr.handshake = "done" =>
                tr.mades + Cardinality(Queued("connection_made")) = 1
        /\ (tr.handshake = "done" /\ tr.mades = 0) =>
                /\ tr.reader = "_on_ready" /\ tr.writer = "_on_ready"
                /\ Queued("_on_handshake") = {}
                /\ \E i \in Queued("connection_made") :
                        Queued("waiter.set_result") = {i + 1}
        /\ tr.waiter = "result" => tr.made
        /\ tr.handshake = "failed" =>
                /\ tr.sock_closed /\ tr.waiter = "exception"
                /\ tr.mades = 0 /\ ~tr.made
                /\ Queued("connection_made") = {}

\* The handshake needed the socket to become readable or writable at least
\* once, then succeeded; connection_made was delivered and the waiter has
\* its result.
C35_Witness ==
    /\ tr.kind = "ssl" /\ tr.stalls >= 1
    /\ tr.handshake = "done" /\ tr.mades = 1 /\ tr.waiter = "result"

\* The handshake failed after a retry: the socket is closed and the waiter
\* has the exception.
C35_WitnessFailed ==
    /\ tr.kind = "ssl" /\ tr.stalls >= 1
    /\ tr.handshake = "failed" /\ tr.sock_closed /\ tr.waiter = "exception"
    /\ tr.ready = <<>>

(***************************************************************************)
(* Claims about the StreamReader's accounting, checked under SpecSR.       *)
(***************************************************************************)

\* C36: whenever no read operation is suspended, byte_count is the total
\* length of the chunks in the buffer, whatever was fed and read before,
\* a readline that raised 'Line is too long' and a read operation that was
\* cancelled while suspended included.
C36_ByteCountMatchesBuffer ==
    rd.status # "suspended" => sr.byte_count = Len(join(sr.buffer))

\* A readline that had taken a chunk without a newline from the buffer was
\* cancelled while it waited for more: the chunk is gone and byte_count
\* still counts it.
C36_CancelledReadline ==
    /\ rd.op = "readline" /\ rd.status = "done" /\ rd.exc = CancelledError
    /\ sr.exception = None
    /\ rd.parts # <<>>
    /\ sr.byte_count = Len(join(sr.buffer)) + Len(rd.parts)

\* A readline has raised 'Line is too long' with bytes left in the buffer,
\* and byte_count is their number.
C36_LineTooLong ==
    /\ rd.op = "readline" /\ rd.status = "done" /\ rd.exc = ValueError
    /\ sr.buffer # <<>> /\ sr.byte_count = Len(join(sr.buffer))

(***************************************************************************)
(* Claims about the ParserBuffer and the DataBuffer, checked under SpecBuf *)
(* and SpecData.                                                           *)
(***************************************************************************)

\* C37: after every operation of a ParserBuffer (feed_data, read, readsome,
\* readuntil, skip, skipuntil) that has returned or raised, the cursor is
\* within the buffer, 0 <= offset <= len(buffer), and size is the number of
\* bytes behind it, size = len(buffer) - offset.
C37_CursorAndSize ==
    (ps.kind = "buffer" /\ ps.op = NoOp) =>
        /\ 0 <= ps.buf.offset /\ ps.buf.offset <= Len(ps.buf.data)
        /\ ps.buf.size = Len(ps.buf.data) - ps.buf.offset

\* C37 as long as no skipuntil has been started: every other primitive
\* keeps the cursor within the buffer and the size right, also while it
\* waits.
C37_HoldsWithoutSkipuntil ==
    (ps.kind = "buffer" /\ "skipuntil" \notin ps.started) =>
        /\ 0 <= ps.buf.offset /\ ps.buf.offset <= Len(ps.buf.data)
        /\ ps.buf.size = Len(ps.buf.data) - ps.buf.offset

\* A skipuntil has found its stop after it had to wait: size is one less
\* than the number of bytes behind the cursor.
C37_SkipuntilOffByOne ==
    /\ ps.kind = "buffer" /\ ps.op = NoOp /\ ps.last = "skipuntil"
    /\ ps.buf.size = Len(ps.buf.data) - ps.buf.offset - 1

\* What read() has returned and what the buffer holds are the items fed, in
\* the order fed.
ItemsKept == ps.got \o ps.out.buffer = [i \in 1..ps.fed |-> i]

\* C38: once a task suspended in DataBuffer.read() has been cancelled, the
\* DataBuffer stays usable: no feed_data or feed_eof raises, every item fed
\* is kept, and no later read() fails (it returns the next item, or None
\* after EOF).
C38_UsableAfterCancelledRead ==
    (ps.kind = "data" /\ ps.cancels > 0 /\ ps.out.exception = None) =>
        /\ ps.raised = None
        /\ ItemsKept
        /\ ps.rd.status = "done" => ps.rd.exc \in {None, CancelledError}

\* Whatever is fed, read and cancelled, every item fed is either in the
\* buffer or has been returned by a read(), in the order fed.
C38_ItemsAreKept == ps.kind = "data" => ItemsKept

\* The task in read() was cancelled, the feed_data that followed raised
\* InvalidStateError with the item kept in the buffer.
C38_FeedRaises ==
    /\ ps.kind = "data" /\ ps.cancels = 1
    /\ ps.raised = InvalidStateError
    /\ ps.out.buffer # <<>> /\ ps.waiter = None /\ ~ps.out.eof

\* The task in read() was cancelled and a second read() was started before
\* anything was fed: it failed its assertion on the waiter left behind.
C38_ReadFails ==
    /\ ps.kind = "data" /\ ps.cancels = 1 /\ ps.fed = 0 /\ ~ps.out.eof
    /\ ps.rd.status = "done" /\ ps.rd.exc = AssertionError

\* C39: connection_made is the first callback the protocol of a socket, TLS
\* or datagram transport gets: nothing is received, no eof, no refusal and
\* no connection_lost is delivered before it, not even when the transport
\* is closed or aborted straight after it was made.
C39_ConnectionMadeFirst ==
    tr.kind \in {"socket", "ssl", "datagram"} =>
        ((tr.lost # <<>> \/ tr.received > 0 \/ tr.eofs > 0 \/ tr.refused > 0)
            => tr.mades > 0)

\* The part of C39 that holds: a socket or datagram transport queues
\* connection_made in its constructor, ahead of everything else.
C39_HoldsWithoutHandshake ==
    tr.kind \in {"socket", "datagram"} =>
        ((tr.lost # <<>> \/ tr.received > 0 \/ tr.eofs > 0 \/ tr.refused > 0)
            => tr.mades > 0)

\* C39: a TLS transport aborted during the handshake has delivered
\* connection_lost and never connection_made.
C39_LostBeforeMade ==
    ~(tr.kind = "ssl" /\ tr.lost # <<>> /\ tr.mades = 0 /\ tr.aborts > 0
        /\ Queued("connection_made") = {})

\* C39: a socket transport closed by its creator still gets connection_made
\* first.
C39_ClosedAtOnce ==
    ~(tr.kind = "socket" /\ tr.lost # <<>> /\ tr.mades = 1 /\ tr.received = 0)

\* The part of C39 that holds for every kind: as long as the transport is
\* not aborted before connection_made, connection_made comes first.
C39_HoldsWithoutAbort ==
    (tr.kind \in {"socket", "ssl", "datagram"} /\ tr.aborts = 0) =>
        ((tr.lost # <<>> \/ tr.received > 0 \/ tr.eofs > 0 \/ tr.refused > 0)
            => tr.mades > 0)

\* The part of C39 about the subprocess transport holds: whatever the
\* protocol gets first is connection_made, also when the process exits or a
\* pipe delivers data or ends before all the pipes are connected.
C39_SubprocessMadeFirst ==
    tr.kind = "subprocess" =>
        /\ tr.failed = None
        /\ tr.log # <<>> => Head(tr.log) = "connection_made"
        /\ \A i \in DOMAIN tr.log : i > 1 => tr.log[i] # "connection_made"

\* C39: the process has exited before the last pipe was connected, and the
\* call of process_exited waits in _pending_calls for connection_made.
C39_ExitedBeforeConnected ==
    ~(/\ tr.kind = "subprocess"
      /\ tr.pending /\ tr.log = <<>>
      /\ \E i \in DOMAIN tr.pending_calls :
             tr.pending_calls[i].fn = "process_exited")

\* C40: once connection_lost has been delivered, or once a TLS handshake has
\* failed and closed the socket, neither a reader nor a writer of the
\* transport's fd is registered with the loop.
C40_NothingRegistered ==
    (tr.kind \in {"socket", "ssl", "datagram"}
        /\ (tr.lost # <<>> \/ tr.handshake = "failed")) =>
        tr.reader = None /\ tr.writer = None

\* The part of C40 about connection_lost alone.
C40_NothingRegisteredAfterLost ==
    (tr.kind \in {"socket", "ssl", "datagram"} /\ tr.lost # <<>>) =>
        tr.reader = None /\ tr.writer = None

\* C40: a TLS handshake that had to wait for the socket has failed, the
\* socket is closed, and _on_handshake is still registered for its fd.
C40_HandshakeStillRegistered ==
    ~(/\ tr.kind = "ssl" /\ tr.handshake = "failed" /\ tr.sock_closed
      /\ (tr.reader = "_on_handshake" \/ tr.writer = "_on_handshake"))

\* The part of C40 that holds while the protocol is the only caller: after
\* connection_lost a socket transport, a TLS transport and a connected
\* datagram transport have nothing registered, and an unconnected datagram
\* transport has no reader.
C40_HoldsForConnected ==
    (tr.kind \in {"socket", "ssl", "datagram"} /\ tr.lost # <<>>) =>
        /\ tr.reader = None
        /\ (tr.kind = "datagram" /\ ~tr.address) \/ tr.writer = None

\* C40: an unconnected datagram transport was closed, sendto registered
\* _sendto_ready all the same, and connection_lost has been delivered.
C40_WriterAfterLost ==
    ~(/\ tr.kind = "datagram" /\ ~tr.address
      /\ tr.lost # <<>> /\ tr.writer = "_sendto_ready")

\* C40: a TLS transport closed during its handshake has delivered
\* connection_lost and keeps _on_ready registered as its reader.
C40_ReaderAfterLost ==
    ~(tr.kind = "ssl" /\ tr.lost # <<>> /\ tr.reader = "_on_ready")

====
